---- MODULE Spec2Model ----
(***************************************************************************)
(* AutoDocGen: function location, doc-comment detection, identity keys and *)
(* the history-reconciling scan commands of the VS Code extension.         *)
(*                                                                         *)
(* Text is modelled at character level: a string is a sequence of          *)
(* one-character strings, a document is a sequence of lines.  Line numbers *)
(* and offsets are 0-based as in the source; the sequences holding them    *)
(* are 1-based, so line i of a document d is d[i + 1].                     *)
(***************************************************************************)
EXTENDS Integers, Sequences, FiniteSets, TLC

VARIABLES
    \* --- DocPresenceDetector harness (SpecDoc) ---
    dLines,      \* the document handed to hasDocCommentAbove
    dTarget,     \* the target line
    dCalled,     \* whether hasDocCommentAbove has been applied
    dResult,     \* the boolean it returned
    \* --- regex locator harness (SpecLoc) ---
    lText,       \* the source text handed to the locator
    lParser,     \* "javaRegexParser" or "parserRegex" (parser.ts, regex version)
    lLang,       \* the language tag
    lCalled,     \* whether the locator has run
    lFuncs,      \* the descriptors it returned
    \* --- identity-key harness (SpecKey) ---
    kText,       \* a source text holding one function
    kPath,       \* "scanCommand" (part_002) or "documentFunctions" (extension.ts)
    kStage,      \* "fresh", "edited", "keyed"
    kEdit,       \* the user's edit: [kind, pos, ch]
    kEdited,     \* the text after the edit
    kBefore,     \* spans and keys computed on kText
    kAfter,      \* spans and keys computed on kEdited
    \* --- AST locator harness (SpecAst) ---
    aNodes,      \* the function-like nodes of the file, in traversal order
    aLang,       \* the language tag
    aStage,      \* "parse", "traverse", "done"
    aPos,        \* index of the next node the traversal visits
    aResults,    \* the results array
    \* --- full-file scan command (Spec) ---
    sVersion,    \* which scanCommand of part_002: "llm" or "template"
    sLanguage,   \* document.languageId
    sDocument,   \* the editor's document, a sequence of lines
    sHistoryFile,\* the persisted record: [exists, keys]
    sPc,         \* "idle", "parse", "loop", "gen", "apply"
    sText,       \* text = document.getText() taken at the start
    sHistory,    \* the in-memory record
    sParsedFuncs,\* parsedFuncs
    sIdx,        \* position of the for loop in parsedFuncs (1-based)
    sEdits,      \* the WorkspaceEdit: a sequence of [line, character, newText]
    sInsertedCount,
    sCurrentLine,\* loop locals of the descriptor under reconciliation
    sUniqueKey,
    sDocText,
    sGenFailed,  \* the collaborator failed during the running scan
    sLog,        \* finished commands and user edits, oldest first
    sOutcomes,   \* what the running scan did with each descriptor, in order
    sHistoryChanged, \* an assignment or delete of the running scan changed the record
    sHistoryWritten, \* the running scan has called writeFileSync on the record
    \* --- selection scan command (SpecSel) ---
    cVersion,    \* which scanSelection of part_002: "llm" or "template"
    cLanguage,   \* document.languageId
    cDocument,   \* the editor's document, a sequence of lines
    cHistoryFile,\* the persisted record: [exists, keys]
    cPc,         \* "idle", "loop", "gen", "apply", "write"
    cSelectionOffset, \* document.offsetAt(selection.start)
    cText,       \* text = document.getText() taken at the start
    cHistory,    \* the in-memory record
    cFoundOne,   \* foundOne
    cEdits,      \* the WorkspaceEdit
    cMatch,      \* the match the loop stopped at: [name, startIndex, endIndex]
    cCurrentLine,
    cUniqueKey,
    cLog,        \* the finished selection scans, oldest first
    \* --- two overlapping full-file scans of one file (SpecPar) ---
    pVersion,    \* which scanCommand of part_002: "llm" or "template"
    pLanguage,   \* document.languageId
    pDocument,   \* the editor's document, shared by the two invocations
    pHistoryFile,\* the persisted record, shared by the two invocations
    pScan,       \* the locals of each invocation of the command
    pResets      \* how often the history was reset

docVars == <<dLines, dTarget, dCalled, dResult>>

locVars == <<lText, lParser, lLang, lCalled, lFuncs>>

keyVars == <<kText, kPath, kStage, kEdit, kEdited, kBefore, kAfter>>

astVars == <<aNodes, aLang, aStage, aPos, aResults>>

scanLocals == <<sText, sParsedFuncs, sIdx, sInsertedCount, sCurrentLine, sUniqueKey, sDocText>>

\* What the last started scan has done so far.
scanTrace == <<sOutcomes, sHistoryChanged, sHistoryWritten>>

scanVars ==
    <<sVersion, sLanguage, sDocument, sHistoryFile, sPc, sHistory, sEdits,
      sGenFailed, sLog, scanLocals, scanTrace>>

selVars ==
    <<cVersion, cLanguage, cDocument, cHistoryFile, cPc, cSelectionOffset, cText,
      cHistory, cFoundOne, cEdits, cMatch, cCurrentLine, cUniqueKey, cLog>>

\* The commands that have a specification of their own further down.
parVars == <<pVersion, pLanguage, pDocument, pHistoryFile, pScan, pResets>>

cmdVars == <<selVars, parVars>>

vars == <<docVars, locVars, keyVars, astVars, scanVars, cmdVars>>

\* The variables of a specification that does not use them.
DocIdle == dLines = <<>> /\ dTarget = 0 /\ dCalled = FALSE /\ dResult = FALSE

LocIdle ==
    lText = <<>> /\ lParser = "none" /\ lLang = "none" /\ lCalled = FALSE /\ lFuncs = <<>>

KeyIdle ==
    /\ kText = <<>> /\ kPath = "none" /\ kStage = "none"
    /\ kEdit = [kind |-> "none", pos |-> 0, ch |-> " "]
    /\ kEdited = <<>> /\ kBefore = <<>> /\ kAfter = <<>>

AstIdle ==
    aNodes = <<>> /\ aLang = "none" /\ aStage = "none" /\ aPos = 0 /\ aResults = <<>>

ScanIdle ==
    /\ sVersion = "none" /\ sLanguage = "none" /\ sDocument = <<>>
    /\ sHistoryFile = [exists |-> FALSE, keys |-> {}]
    /\ sPc = "none" /\ sText = <<>> /\ sHistory = {} /\ sParsedFuncs = <<>>
    /\ sIdx = 0 /\ sEdits = <<>> /\ sInsertedCount = 0 /\ sCurrentLine = 0
    /\ sUniqueKey = <<>> /\ sDocText = <<>> /\ sGenFailed = FALSE /\ sLog = <<>>
    /\ sOutcomes = <<>> /\ sHistoryChanged = FALSE /\ sHistoryWritten = FALSE

NoFunction == [name |-> <<>>, startIndex |-> 0, endIndex |-> 0]

SelIdle ==
    /\ cVersion = "none" /\ cLanguage = "none" /\ cDocument = <<>>
    /\ cHistoryFile = [exists |-> FALSE, keys |-> {}]
    /\ cPc = "none" /\ cSelectionOffset = 0 /\ cText = <<>> /\ cHistory = {}
    /\ cFoundOne = FALSE /\ cEdits = <<>> /\ cMatch = NoFunction
    /\ cCurrentLine = 0 /\ cUniqueKey = <<>> /\ cLog = <<>>

ParIdle ==
    /\ pVersion = "none" /\ pLanguage = "none" /\ pDocument = <<>>
    /\ pHistoryFile = [exists |-> FALSE, keys |-> {}]
    /\ pScan = <<>> /\ pResets = 0

CmdIdle == SelIdle /\ ParIdle

-----------------------------------------------------------------------------
(* Characters and strings *)

\* JavaScript's \s, restricted to the characters the inputs use.
WsChars == {" ", "\n", "\t", "\r"}

IsWs(c) == c \in WsChars

StartsWith(s, p) == Len(s) >= Len(p) /\ SubSeq(s, 1, Len(p)) = p

EndsWith(s, p) == Len(s) >= Len(p) /\ SubSeq(s, Len(s) - Len(p) + 1, Len(s)) = p

\* String.prototype.trim: whitespace removed from both ends.
Trim(s) ==
    LET nonWs == {i \in 1..Len(s) : ~IsWs(s[i])}
        lo == CHOOSE i \in nonWs : \A j \in nonWs : i <= j
        hi == CHOOSE i \in nonWs : \A j \in nonWs : i >= j
    IN IF nonWs = {} THEN <<>> ELSE SubSeq(s, lo, hi)

\* Occurrence of p somewhere in s (String.prototype.includes).
Contains(s, p) == \E i \in 1..(Len(s) - Len(p) + 1) : SubSeq(s, i, i + Len(p) - 1) = p

BlockOpen == <<"/", "*">>
DocOpen == <<"/", "*", "*">>
BlockClose == <<"*", "/">>
LineCommentOpen == <<"/", "/">>
TripleQuote == <<"\"", "\"", "\"">>

\* JavaScript's \w.
WordChars ==
    { "a", "b", "c", "d", "e", "f", "g", "h", "i", "j", "k", "l", "m",
      "n", "o", "p", "q", "r", "s", "t", "u", "v", "w", "x", "y", "z",
      "A", "B", "C", "D", "E", "F", "G", "H", "I", "J", "K", "L", "M",
      "N", "O", "P", "Q", "R", "S", "T", "U", "V", "W", "X", "Y", "Z",
      "0", "1", "2", "3", "4", "5", "6", "7", "8", "9", "_" }

IsWord(c) == c \in WordChars

\* The character class [\w<>\[\]] of the signature patterns.
IsTypeChar(c) == IsWord(c) \/ c \in {"<", ">", "[", "]"}

MinOf(S) == CHOOSE x \in S : \A y \in S : x <= y

MaxOf(S) == CHOOSE x \in S : \A y \in S : x >= y

\* The first position >= i (1-based) whose character fails P, Len(t) + 1 when
\* every character from i on passes: where a greedy P* stops.
SkipWs(t, i) == MinOf({j \in i..(Len(t) + 1) : j = Len(t) + 1 \/ ~IsWs(t[j])})

SkipWord(t, i) == MinOf({j \in i..(Len(t) + 1) : j = Len(t) + 1 \/ ~IsWord(t[j])})

SkipType(t, i) == MinOf({j \in i..(Len(t) + 1) : j = Len(t) + 1 \/ ~IsTypeChar(t[j])})

\* The literal p at position i of t.
LitAt(t, i, p) == i + Len(p) - 1 <= Len(t) /\ SubSeq(t, i, i + Len(p) - 1) = p

\* String.prototype.split on a one-character separator.
RECURSIVE SplitOn(_, _)
SplitOn(s, sep) ==
    LET hits == {i \in 1..Len(s) : s[i] = sep}
    IN IF hits = {} THEN <<s>>
       ELSE <<SubSeq(s, 1, MinOf(hits) - 1)>>
            \o SplitOn(SubSeq(s, MinOf(hits) + 1, Len(s)), sep)

\* String.prototype.split(/\s+/): the pieces between whitespace runs.
RECURSIVE SplitWs(_)
SplitWs(s) ==
    LET hits == {i \in 1..Len(s) : IsWs(s[i])}
    IN IF hits = {} THEN <<s>>
       ELSE <<SubSeq(s, 1, MinOf(hits) - 1)>>
            \o SplitWs(SubSeq(s, SkipWs(s, MinOf(hits)), Len(s)))

\* Array.prototype.join with a one-character separator.
RECURSIVE JoinWith(_, _)
JoinWith(parts, sep) ==
    IF parts = <<>> THEN <<>>
    ELSE IF Len(parts) = 1 THEN parts[1]
    ELSE parts[1] \o <<sep>> \o JoinWith(Tail(parts), sep)

\* Array.prototype.filter / map over a sequence.
RECURSIVE NonEmpty(_)
NonEmpty(parts) ==
    IF parts = <<>> THEN <<>>
    ELSE IF parts[1] = <<>> THEN NonEmpty(Tail(parts))
    ELSE <<parts[1]>> \o NonEmpty(Tail(parts))

TrimAll(parts) == [i \in 1..Len(parts) |-> Trim(parts[i])]

\* Concatenation of a sequence of strings (+= in a forEach, join("")).
RECURSIVE Flatten(_)
Flatten(parts) == IF parts = <<>> THEN <<>> ELSE parts[1] \o Flatten(Tail(parts))

\* String.prototype.replace(/\s+/g, " "): every whitespace run becomes one space.
\* A run of other characters is copied as it stands.
RECURSIVE CollapseWs(_)
CollapseWs(s) ==
    IF s = <<>> THEN <<>>
    ELSE IF IsWs(s[1])
         THEN <<" ">> \o CollapseWs(SubSeq(s, SkipWs(s, 1), Len(s)))
         ELSE LET e == MinOf({j \in 1..(Len(s) + 1) : j = Len(s) + 1 \/ IsWs(s[j])})
              IN SubSeq(s, 1, e - 1) \o CollapseWs(SubSeq(s, e, Len(s)))

-----------------------------------------------------------------------------
(* Signature patterns.  Positions inside these operators are 1-based; the  *)
(* match records carry the 0-based index and lastIndex of RegExp.exec.     *)

\* JavaScript's undefined, where the source only tests it with || or ?.
Undefined == <<>>

NoMatch == [found |-> FALSE]

\* The Java signature pattern tried at position s:
\*   (?:public|private|protected)?\s*(?:static\s*)?(?:[\w<>\[\]]+\s+)+(\w+)\s*\(([^)]*)\)\s*\{
\* Everything up to the "(" is type characters and whitespace; the name is the
\* last run, made of word characters, and at least one run precedes it (the
\* optional modifiers are themselves word characters).
JavaSigAt(t, s) ==
    LET q == MinOf({j \in s..(Len(t) + 1) :
                      j = Len(t) + 1 \/ ~(IsTypeChar(t[j]) \/ IsWs(t[j]))})
        nonWs == {j \in s..(q - 1) : ~IsWs(t[j])}
        e == MaxOf(nonWs)
        ns == MinOf({j \in s..e : \A k \in j..e : IsTypeChar(t[k])})
        closes == {j \in (q + 1)..Len(t) : t[j] = ")"}
        rp == MinOf(closes)
        b == SkipWs(t, rp + 1)
    IN IF /\ q <= Len(t)
          /\ t[q] = "("
          /\ nonWs # {}
          /\ \A k \in ns..e : IsWord(t[k])
          /\ ns > s
          /\ \E j \in s..(ns - 1) : IsTypeChar(t[j])
          /\ closes # {}
          /\ b <= Len(t)
          /\ t[b] = "{"
       THEN [found |-> TRUE, index |-> s - 1, lastIndex |-> b,
             g1 |-> SubSeq(t, ns, e), g2 |-> SubSeq(t, q + 1, rp - 1),
             g3 |-> Undefined, g4 |-> Undefined]
       ELSE NoMatch

KwFunction == <<"f", "u", "n", "c", "t", "i", "o", "n">>
KwConst == <<"c", "o", "n", "s", "t">>
Arrow == <<"=", ">">>

\* The tail \s*:?\s*[\w<>\[\]]*\s*\{ (with =>\s* before the brace for the
\* arrow form) after the ")" at position rp: the position of the "{", or 0.
JsTail(t, rp, arrow) ==
    LET i1 == SkipWs(t, rp + 1)
        i2 == IF i1 <= Len(t) /\ t[i1] = ":" THEN i1 + 1 ELSE i1
        i3 == SkipWs(t, SkipType(t, SkipWs(t, i2)))
        i4 == IF arrow THEN SkipWs(t, i3 + 2) ELSE i3
    IN IF (arrow => LitAt(t, i3, Arrow)) /\ i4 <= Len(t) /\ t[i4] = "{"
       THEN i4 ELSE 0

\* function\s+(\w+)\s*\(([^)]*)\)\s*:?\s*[\w<>\[\]]*\s*\{
JsFunctionAt(t, s) ==
    LET j == SkipWs(t, s + Len(KwFunction))
        k == SkipWord(t, j)
        q == SkipWs(t, k)
        closes == {c \in (q + 1)..Len(t) : t[c] = ")"}
        rp == MinOf(closes)
        b == JsTail(t, rp, FALSE)
    IN IF /\ LitAt(t, s, KwFunction)
          /\ j > s + Len(KwFunction)
          /\ k > j
          /\ q <= Len(t) /\ t[q] = "("
          /\ closes # {}
          /\ b > 0
       THEN [found |-> TRUE, index |-> s - 1, lastIndex |-> b,
             g1 |-> SubSeq(t, j, k - 1), g2 |-> SubSeq(t, q + 1, rp - 1),
             g3 |-> Undefined, g4 |-> Undefined]
       ELSE NoMatch

\* const\s+(\w+)\s*=\s*\(([^)]*)\)\s*:?\s*[\w<>\[\]]*\s*=>\s*\{
JsConstAt(t, s) ==
    LET j == SkipWs(t, s + Len(KwConst))
        k == SkipWord(t, j)
        eq == SkipWs(t, k)
        q == SkipWs(t, eq + 1)
        closes == {c \in (q + 1)..Len(t) : t[c] = ")"}
        rp == MinOf(closes)
        b == JsTail(t, rp, TRUE)
    IN IF /\ LitAt(t, s, KwConst)
          /\ j > s + Len(KwConst)
          /\ k > j
          /\ eq <= Len(t) /\ t[eq] = "="
          /\ q <= Len(t) /\ t[q] = "("
          /\ closes # {}
          /\ b > 0
       THEN [found |-> TRUE, index |-> s - 1, lastIndex |-> b,
             g1 |-> Undefined, g2 |-> Undefined,
             g3 |-> SubSeq(t, j, k - 1), g4 |-> SubSeq(t, q + 1, rp - 1)]
       ELSE NoMatch

KwDefWord == <<"d", "e", "f">>

\* def\s+(\w+)\s*\(([^)]*)\)\s*:
PythonDefAt(t, s) ==
    LET j == SkipWs(t, s + Len(KwDefWord))
        k == SkipWord(t, j)
        q == SkipWs(t, k)
        closes == {c \in (q + 1)..Len(t) : t[c] = ")"}
        rp == MinOf(closes)
        b == SkipWs(t, rp + 1)
    IN IF /\ LitAt(t, s, KwDefWord)
          /\ j > s + Len(KwDefWord)
          /\ k > j
          /\ q <= Len(t) /\ t[q] = "("
          /\ closes # {}
          /\ b <= Len(t) /\ t[b] = ":"
       THEN [found |-> TRUE, index |-> s - 1, lastIndex |-> b,
             g1 |-> SubSeq(t, j, k - 1), g2 |-> SubSeq(t, q + 1, rp - 1),
             g3 |-> Undefined, g4 |-> Undefined]
       ELSE NoMatch

\* The pattern the language switch selects, tried at position s (the
\* alternation of the JavaScript/TypeScript pattern tries the function form
\* first).
SigAt(language, t, s) ==
    IF language = "java" THEN JavaSigAt(t, s)
    ELSE IF language = "python" THEN PythonDefAt(t, s)
    ELSE IF JsFunctionAt(t, s).found THEN JsFunctionAt(t, s)
    ELSE JsConstAt(t, s)

\* regex.exec(text) with the g flag and lastIndex = from: the leftmost match
\* starting at offset >= from.
ExecFrom(language, t, from) ==
    LET S == {s \in (from + 1)..Len(t) : SigAt(language, t, s).found}
    IN IF S = {} THEN NoMatch ELSE SigAt(language, t, MinOf(S))

\* The successive matches of `while ((match = regex.exec(text)) !== null)`.
RECURSIVE MatchesFrom(_, _, _)
MatchesFrom(language, t, from) ==
    LET m == ExecFrom(language, t, from)
    IN IF m.found THEN <<m>> \o MatchesFrom(language, t, m.lastIndex) ELSE <<>>

-----------------------------------------------------------------------------
(* Regex locators *)

\* The brace-counting loop of the parsers, from 0-based offset i with the
\* running braceCount and the started flag; the value is endIndex after the
\* loop: one past the "}" that brings the count to zero, else text.length.
\* The loop passes over every other character without effect, so the scan
\* moves from one brace to the next.
NextBrace(t, i) ==
    MinOf({j \in i..Len(t) : j = Len(t) \/ t[j + 1] \in {"{", "}"}})

RECURSIVE BraceScan(_, _, _, _)
BraceScan(t, i, braceCount, started) ==
    IF NextBrace(t, i) >= Len(t) THEN Len(t)
    ELSE IF t[NextBrace(t, i) + 1] = "{"
         THEN BraceScan(t, NextBrace(t, i) + 1, braceCount + 1, TRUE)
    ELSE IF braceCount - 1 = 0 /\ started THEN NextBrace(t, i) + 1
    ELSE BraceScan(t, NextBrace(t, i) + 1, braceCount - 1, started)

\* text.substring(startIndex).match(/\(([^)]*)\)/): the text between the first
\* "(" that has a ")" after it and that ")"; "" when there is none.
RawParams(t, startIndex) ==
    LET opens == {i \in (startIndex + 1)..Len(t) :
                    t[i] = "(" /\ \E j \in (i + 1)..Len(t) : t[j] = ")"}
        o == MinOf(opens)
        c == MinOf({j \in (o + 1)..Len(t) : t[j] = ")"})
    IN IF opens = {} THEN <<>> ELSE SubSeq(t, o + 1, c - 1)

\* args.split(",").map((p) => p.trim()).filter(Boolean)
ParamPieces(args) == NonEmpty(TrimAll(SplitOn(args, ",")))

\* javaRegexParser: const [type, name] = p.trim().split(/\s+/)
JavaParam(p) ==
    LET parts == SplitWs(Trim(p))
    IN [name |-> IF Len(parts) >= 2 THEN parts[2] ELSE <<>>,
        type |-> parts[1]]

\* parser.ts (regex version): const [name, type] = p.split(":")
ColonParam(p) ==
    LET parts == SplitOn(p, ":")
    IN [name |-> Trim(parts[1]),
        type |-> IF Len(parts) >= 2 THEN Trim(parts[2]) ELSE Undefined]

\* rawBody.split("\n").map(trim).filter(nonempty).join("\n")
FnBody(rawBody) == JoinWith(NonEmpty(TrimAll(SplitOn(rawBody, "\n"))), "\n")

\* text.substring(startIndex).match(/\)\s*:\s*([\w<>\[\]]+)\s*(?:{|=>)/):
\* the first place in the REST OF THE TEXT where the pattern matches.
ReturnTypeMatch(t, startIndex) ==
    LET ok(i) ==
            LET j == SkipWs(t, i + 1)
                k == SkipWs(t, j + 1)
                m == SkipType(t, k)
                n == SkipWs(t, m)
            IN /\ t[i] = ")"
               /\ j <= Len(t) /\ t[j] = ":"
               /\ m > k
               /\ (n <= Len(t) /\ t[n] = "{") \/ LitAt(t, n, Arrow)
        S == {i \in (startIndex + 1)..Len(t) : ok(i)}
        k0 == SkipWs(t, SkipWs(t, MinOf(S) + 1) + 1)
    IN IF S = {} THEN Undefined ELSE SubSeq(t, k0, SkipType(t, k0) - 1)

Anonymous == <<"a", "n", "o", "n", "y", "m", "o", "u", "s">>

\* One iteration of parseJavaWithRegex's loop: the descriptor pushed for match m.
JavaDescriptor(t, m) ==
    LET startIndex == m.index
        endIndex == BraceScan(t, startIndex, 0, FALSE)
        pieces == ParamPieces(RawParams(t, startIndex))
    IN [name |-> IF m.g1 # <<>> THEN m.g1 ELSE Anonymous,
        params |-> [i \in 1..Len(pieces) |-> JavaParam(pieces[i])],
        returnType |-> Undefined,
        startIndex |-> startIndex,
        endIndex |-> endIndex,
        body |-> FnBody(SubSeq(t, startIndex + 1, endIndex)),
        language |-> "java"]

parseJavaWithRegex(text) ==
    LET ms == MatchesFrom("java", text, 0)
    IN [i \in 1..Len(ms) |-> JavaDescriptor(text, ms[i])]

\* One iteration of the loop of parser.ts's regex version.
RegexDescriptor(t, language, m) ==
    LET startIndex == m.index
        endIndex == BraceScan(t, startIndex, 0, FALSE)
        pieces == ParamPieces(RawParams(t, startIndex))
    IN [name |-> IF m.g1 # <<>> THEN m.g1 ELSE IF m.g2 # <<>> THEN m.g2 ELSE Anonymous,
        params |-> [i \in 1..Len(pieces) |-> ColonParam(pieces[i])],
        returnType |-> IF language = "typescript"
                       THEN ReturnTypeMatch(t, startIndex) ELSE Undefined,
        startIndex |-> startIndex,
        endIndex |-> endIndex,
        body |-> FnBody(SubSeq(t, startIndex + 1, endIndex)),
        language |-> language]

\* parser.ts, regex version, for the brace languages (Python goes to its
\* external parser, any other language gives []).
parseFunctionsRegex(text, language) ==
    IF language \notin {"javascript", "typescript", "java"} THEN <<>>
    ELSE LET ms == MatchesFrom(language, text, 0)
         IN [i \in 1..Len(ms) |-> RegexDescriptor(text, language, ms[i])]

-----------------------------------------------------------------------------
(* hasDocCommentAbove *)

RECURSIVE HasDocWalk(_, _, _)
\* The while loop of hasDocCommentAbove: i is the line under inspection,
\* inBlock the loop's flag.
HasDocWalk(doc, i, inBlock) ==
    IF i < 0 THEN FALSE
    ELSE IF i >= Len(doc) THEN FALSE
    ELSE LET txt == Trim(doc[i + 1]) IN
         IF ~inBlock
         THEN IF EndsWith(txt, BlockClose) THEN HasDocWalk(doc, i - 1, TRUE)
              ELSE IF StartsWith(txt, TripleQuote) THEN TRUE
              ELSE IF StartsWith(txt, LineCommentOpen) THEN HasDocWalk(doc, i - 1, FALSE)
              ELSE IF txt = <<>> THEN HasDocWalk(doc, i - 1, FALSE)
              ELSE FALSE
         ELSE IF StartsWith(txt, DocOpen) \/ StartsWith(txt, BlockOpen) THEN TRUE
              ELSE HasDocWalk(doc, i - 1, TRUE)

hasDocCommentAbove(doc, line) == HasDocWalk(doc, line - 1, FALSE)

-----------------------------------------------------------------------------
(* SpecDoc: hasDocCommentAbove applied to every small document *)

MaxDocLines == 3

DocLinePool ==
    { <<>>,
      <<" ", " ">>,
      <<"/", "/", " ", "c">>,
      <<"/", "/", " ", "c", " ", "*", "/">>,
      <<"#", " ", "c">>,
      <<"/", "*", "*">>,
      <<"/", "*", " ", "c">>,
      <<" ", "*", " ", "c">>,
      <<" ", "*", "/">>,
      <<"/", "*", "*", " ", "c", " ", "*", "/">>,
      <<" ", "/", "*", " ", "c", " ", "*", "/", " ">>,
      <<"x", ";">>,
      <<"\"", "\"", "\"">>,
      <<"\"", "\"", "\"", "c", "\"", "\"", "\"">> }

\* A line holding a function signature: what a target line is in the callers.
FnLine == <<"t", " ", "f", "(", ")", " ", "{", "}">>

DocInit ==
    /\ LocIdle /\ KeyIdle /\ AstIdle /\ ScanIdle /\ CmdIdle
    /\ \E n \in 0..MaxDocLines : \E above \in [1..n -> DocLinePool] :
          dLines = above \o <<FnLine>>
    /\ dTarget = Len(dLines) - 1
    /\ dCalled = FALSE
    /\ dResult = FALSE

CallHasDoc ==
    /\ ~dCalled
    /\ dCalled' = TRUE
    /\ dResult' = hasDocCommentAbove(dLines, dTarget)
    /\ UNCHANGED <<dLines, dTarget, locVars, keyVars, astVars, scanVars, cmdVars>>

DocNext == CallHasDoc

SpecDoc == DocInit /\ [][DocNext]_vars

\* The nearest non-blank line above `line`, or -1 when there is none.
NearestNonBlankAbove(doc, line) ==
    LET S == {i \in 0..(line - 1) : Trim(doc[i + 1]) # <<>>}
    IN IF S = {} THEN -1 ELSE CHOOSE i \in S : \A j \in S : j <= i

\* Lines o..c of doc are exactly one closed block comment: line o opens it
\* with /* or /**, line c ends with the only */ of the comment.
IsClosedBlock(doc, o, c) ==
    LET to == Trim(doc[o + 1])
        tc == Trim(doc[c + 1])
    IN /\ o <= c
       /\ StartsWith(to, BlockOpen)
       /\ EndsWith(tc, BlockClose)
       /\ IF o = c
          THEN Len(to) >= 4 /\ ~Contains(SubSeq(to, 3, Len(to) - 1), BlockClose)
          ELSE /\ ~Contains(SubSeq(to, 3, Len(to)), BlockClose)
               /\ ~Contains(SubSeq(tc, 1, Len(tc) - 1), BlockClose)
               /\ \A m \in (o + 1)..(c - 1) : ~Contains(doc[m + 1], BlockClose)

\* Zero or more blank lines and, directly above them, a closed block comment.
ClosedBlockAbove(doc, line) ==
    LET c == NearestNonBlankAbove(doc, line)
    IN c >= 0 /\ \E o \in 0..c : IsClosedBlock(doc, o, c)

\* C2: hasDocCommentAbove returns true for every target line preceded by
\* zero or more blank lines and, directly above them, a closed block comment,
\* single-line or multi-line, wherever it sits in the file.
C2_ClosedBlockDetected ==
    (dCalled /\ ClosedBlockAbove(dLines, dTarget)) => dResult = TRUE

IsLineComment(t) == StartsWith(t, LineCommentOpen) \/ StartsWith(t, <<"#">>)

\* A line of code: not blank, no comment or docstring syntax on it.
IsCodeLine(t) ==
    /\ t # <<>>
    /\ ~IsLineComment(t)
    /\ ~Contains(t, BlockOpen)
    /\ ~Contains(t, BlockClose)
    /\ ~StartsWith(t, <<"*">>)
    /\ ~Contains(t, TripleQuote)

\* The line opens a block comment that it does not close.
OpensUnclosed(t) ==
    \E p \in 1..(Len(t) - 1) :
        /\ SubSeq(t, p, p + 1) = BlockOpen
        /\ ~Contains(SubSeq(t, p + 2, Len(t)), BlockClose)

\* Line i of doc begins inside a block comment that an earlier line opened
\* and no line since has closed.
RECURSIVE InBlockCommentAt(_, _)
InBlockCommentAt(doc, i) ==
    IF i <= 0 THEN FALSE
    ELSE IF InBlockCommentAt(doc, i - 1) THEN ~Contains(doc[i], BlockClose)
    ELSE IF IsLineComment(Trim(doc[i])) THEN FALSE
    ELSE OpensUnclosed(doc[i])

\* The lines above `line`, up to the nearest code line or the top of the
\* file, are blank lines and single-line comment lines only, none of them
\* inside a block comment.
OnlyBlankAndLineCommentsAbove(doc, line) ==
    \E top \in 0..line :
        /\ \A i \in top..(line - 1) :
              /\ Trim(doc[i + 1]) = <<>> \/ IsLineComment(Trim(doc[i + 1]))
              /\ ~InBlockCommentAt(doc, i)
        /\ top = 0 \/ (IsCodeLine(Trim(doc[top])) /\ ~InBlockCommentAt(doc, top - 1))

\* C3: hasDocCommentAbove returns false for every target line whose
\* preceding lines, up to the nearest code line or the top of the file, are
\* only blank lines and single-line comment lines.
C3_LineCommentsUndocumented ==
    (dCalled /\ OnlyBlankAndLineCommentsAbove(dLines, dTarget)) => dResult = FALSE

\* The line on which the upward walk from line i meets a line ending with
\* */ (the walk passes blank lines and // lines), or -1 when it ends first.
RECURSIVE CloserLine(_, _)
CloserLine(doc, i) ==
    IF i < 0 THEN -1
    ELSE IF EndsWith(Trim(doc[i + 1]), BlockClose) THEN i
    ELSE IF StartsWith(Trim(doc[i + 1]), LineCommentOpen) \/ Trim(doc[i + 1]) = <<>>
         THEN CloserLine(doc, i - 1)
    ELSE -1

\* C19: when the walk has seen a line ending with */ and the result is true,
\* a line opening a block comment lies above that line with nothing but blank
\* lines and lines inside the comment between the two: a walk that meets the
\* top of the file or a line outside any comment before an opener gives false.
C19_InBlockWalk ==
    dCalled =>
        LET c == CloserLine(dLines, dTarget - 1)
        IN (c >= 0 /\ dResult)
              => \E o \in 0..(c - 1) :
                    /\ StartsWith(Trim(dLines[o + 1]), BlockOpen)
                    /\ \A j \in (o + 1)..(c - 1) :
                          Trim(dLines[j + 1]) = <<>> \/ InBlockCommentAt(dLines, j)

\* The blank lines and the single-line comment lines of a language.
TransparentLines(language) ==
    {l \in DocLinePool :
        \/ Trim(l) = <<>>
        \/ IF language = "python" THEN StartsWith(Trim(l), <<"#">>)
           ELSE StartsWith(Trim(l), LineCommentOpen)}

\* The document with line l inserted directly above line `line`.
InsertAbove(doc, line, l) ==
    SubSeq(doc, 1, line) \o <<l>> \o SubSeq(doc, line + 1, Len(doc))

\* C20: for every document and target line, in each language, the result
\* of hasDocCommentAbove is the same after a blank line or a single-line
\* comment line of the language is inserted directly above the target line.
C20_Transparency ==
    dCalled =>
        \A language \in {"javascript", "typescript", "java", "python"} :
            \A l \in TransparentLines(language) :
                hasDocCommentAbove(InsertAbove(dLines, dTarget, l), dTarget + 1) = dResult

-----------------------------------------------------------------------------
(* SpecLoc: the regex locators applied to small source texts *)

MaxFrags == 4

JavaSigF == <<"t", " ", "f", "(", "t", " ", "a", ",", " ", "t", " ", "b", ")", " ", "{">>
JavaSigG == <<"t", " ", "g", "(", ")", " ", "{">>
Stmt == <<" ", "x", ";", " ">>
Block == <<" ", "i", "f", " ", "(", "x", ")", " ", "{", " ", "y", " ", "}", " ">>

JavaFrags == {JavaSigF, JavaSigG, <<"}">>, <<"\n">>, Stmt, Block}

JsSigF == <<"f", "u", "n", "c", "t", "i", "o", "n", " ", "f", "(", "a", ",", " ", "b", ")", " ", "{">>
JsSigG == <<"f", "u", "n", "c", "t", "i", "o", "n", " ", "g", "(", "{", "a", "}", ")", " ", "{">>
JsSigH == <<"c", "o", "n", "s", "t", " ", "h", " ", "=", " ", "(", "a", ":", " ", "n", ")", ":", " ", "n", " ", "=", ">", " ", "{">>

JsFrags == {JsSigF, JsSigG, JsSigH, <<"}">>, <<"\n">>, Stmt}

LocInit ==
    /\ DocIdle /\ KeyIdle /\ AstIdle /\ ScanIdle /\ CmdIdle
    /\ \E cfg \in { <<"javaRegexParser", "java">>, <<"parserRegex", "java">>,
                    <<"parserRegex", "javascript">>, <<"parserRegex", "typescript">> } :
          /\ lParser = cfg[1]
          /\ lLang = cfg[2]
          /\ \E n \in 0..MaxFrags :
               \E parts \in [1..n -> IF cfg[2] = "java" THEN JavaFrags ELSE JsFrags] :
                   lText = Flatten(parts)
    /\ lCalled = FALSE
    /\ lFuncs = <<>>

CallJavaRegexParser ==
    /\ ~lCalled
    /\ lParser = "javaRegexParser"
    /\ lCalled' = TRUE
    /\ lFuncs' = parseJavaWithRegex(lText)
    /\ UNCHANGED <<lText, lParser, lLang, docVars, keyVars, astVars, scanVars, cmdVars>>

CallParseFunctionsRegex ==
    /\ ~lCalled
    /\ lParser = "parserRegex"
    /\ lCalled' = TRUE
    /\ lFuncs' = parseFunctionsRegex(lText, lLang)
    /\ UNCHANGED <<lText, lParser, lLang, docVars, keyVars, astVars, scanVars, cmdVars>>

LocNext == CallJavaRegexParser \/ CallParseFunctionsRegex

SpecLoc == LocInit /\ [][LocNext]_vars

\* Number of occurrences of character ch at the 0-based offsets a..b of t.
CountIn(t, a, b, ch) == Cardinality({k \in a..b : t[k + 1] = ch})

\* The offset of the "}" that balances the "{" at offset open, or -1: the first
\* offset after open where as many braces have closed as have opened.
BalancingClose(t, open) ==
    LET S == {j \in (open + 1)..(Len(t) - 1) :
                CountIn(t, open, j, "{") = CountIn(t, open, j, "}")}
    IN IF S = {} THEN -1 ELSE MinOf(S)

\* The name in one piece of a parameter list: the identifier before any
\* ":type", after any leading type words.
ParamName(piece) ==
    LET words == SplitWs(Trim(SplitOn(piece, ":")[1]))
    IN words[Len(words)]

ExpectedNames(args) ==
    LET pieces == ParamPieces(args)
    IN [i \in 1..Len(pieces) |-> ParamName(pieces[i])]

\* The parameter list the signature pattern captured for a match.
SigArgs(m) == IF m.g2 # <<>> THEN m.g2 ELSE m.g4

\* The locator under the language it is written for.
NativeLocator ==
    \/ lParser = "javaRegexParser"
    \/ lParser = "parserRegex" /\ lLang \in {"javascript", "typescript"}

\* C6: for a matched signature whose body braces are balanced, the located
\* end designates the closing brace that balances the signature's opening
\* brace (its offset, or the exclusive end just past it), and the extracted
\* parameters are the comma-separated parameter names in source order.
C6_BraceBalance ==
    (lCalled /\ NativeLocator) =>
        LET ms == MatchesFrom(lLang, lText, 0)
        IN \A i \in 1..Len(lFuncs) :
            LET close == BalancingClose(lText, ms[i].lastIndex - 1)
            IN close >= 0 =>
                /\ lFuncs[i].endIndex \in {close, close + 1}
                /\ [k \in 1..Len(lFuncs[i].params) |-> lFuncs[i].params[k].name]
                     = ExpectedNames(SigArgs(ms[i]))

\* Signatures without braces in their parameter lists, per language.
PlainSigs(language) == IF language = "java" THEN {JavaSigF, JavaSigG} ELSE {JsSigF, JsSigH}

\* A well-formed definition: signature, balanced body, closing brace.
WellFormedFns(language) ==
    {sig \o mid \o <<"}">> : sig \in PlainSigs(language), mid \in {<<>>, Stmt, Block}}

\* A truncated definition: its opening brace is never closed.
TruncatedFns(language) ==
    {sig \o mid : sig \in PlainSigs(language), mid \in {<<>>, Stmt}}

\* C7: for a file holding one truncated definition and one well-formed
\* function, in either order, the regex locator's result contains a descriptor
\* for the well-formed function with its correct start and end (the end as its
\* closing brace's offset or the exclusive end just past it).
C7_MalformedContainment ==
    (lCalled /\ NativeLocator) =>
        \A wf \in WellFormedFns(lLang), tr \in TruncatedFns(lLang), sep \in {<<>>, <<"\n">>} :
            /\ lText = wf \o sep \o tr =>
                 \E i \in 1..Len(lFuncs) :
                     /\ lFuncs[i].startIndex = 0
                     /\ lFuncs[i].endIndex \in {Len(wf) - 1, Len(wf)}
            /\ lText = tr \o sep \o wf =>
                 \E i \in 1..Len(lFuncs) :
                     /\ lFuncs[i].startIndex = Len(tr \o sep)
                     /\ lFuncs[i].endIndex \in {Len(lText) - 1, Len(lText)}

\* C18: for a signature match whose opening brace is never balanced before
\* the end of the text, the regex locator returns no descriptor starting at
\* that match.
C18_TruncatedDiscarded ==
    lCalled =>
        LET ms == MatchesFrom(lLang, lText, 0)
        IN \A i \in 1..Len(ms) :
              BalancingClose(lText, ms[i].lastIndex - 1) = -1
                 => ~\E k \in 1..Len(lFuncs) : lFuncs[k].startIndex = ms[i].index

\* The text of match m alone: the signature from its first character to its
\* opening brace.
SignatureText(t, m) == SubSeq(t, m.index + 1, m.lastIndex)

\* C22: a descriptor of the regex locator has a returnType only when the
\* signature it was made from carries a return annotation of its own.
C22_OwnReturnType ==
    (lCalled /\ lParser = "parserRegex") =>
        LET ms == MatchesFrom(lLang, lText, 0)
        IN \A i \in 1..Len(lFuncs) :
              lFuncs[i].returnType # Undefined
                 => ReturnTypeMatch(SignatureText(lText, ms[i]), 0) # Undefined

-----------------------------------------------------------------------------
(* Identity keys *)

\* path.relative(workspaceFolder, document) of the one file under scan.
RelativePath == "A.java"

\* The text of a function up to its first "{", whitespace collapsed.
signatureOnly(body) ==
    LET opens == {i \in 1..Len(body) : body[i] = "{"}
    IN CollapseWs(IF opens = {} THEN body ELSE SubSeq(body, 1, MinOf(opens)))

\* const fullBody = fn.body.replace(/\s+/g, " ")
fullBody(body) == CollapseWs(body)

\* crypto.createHash("md5").update(s).digest("hex"), taken as collision-free:
\* the digest stands for exactly the string it was computed from.
hash(s) == <<"md5", s>>

\* `${relativePath}::${language}::${hash}`
uniqueKey(relativePath, language, digest) == <<relativePath, language, digest>>

\* The brace loop of documentFunctions (extension.ts): no started flag, and
\* endIndex stays on the "}" that brings the count to zero.
RECURSIVE DocFnBraceScan(_, _, _)
DocFnBraceScan(t, i, braceCount) ==
    IF NextBrace(t, i) >= Len(t) THEN Len(t)
    ELSE IF t[NextBrace(t, i) + 1] = "{"
         THEN DocFnBraceScan(t, NextBrace(t, i) + 1, braceCount + 1)
    ELSE IF braceCount - 1 = 0 THEN NextBrace(t, i)
    ELSE DocFnBraceScan(t, NextBrace(t, i) + 1, braceCount - 1)

\* One iteration of documentFunctions' loop, up to the key, for match m.
DocumentFunctionsKey(t, m, relativePath, language) ==
    LET startIndex == m.index
        endIndex == DocFnBraceScan(t, startIndex, 0)
    IN [startIndex |-> startIndex,
        endIndex |-> endIndex,
        uniqueKey |-> uniqueKey(relativePath, language,
                                hash(fullBody(SubSeq(t, startIndex + 1, endIndex))))]

\* scanCommand's key of a descriptor.
ScanCommandKey(fn, relativePath, language) ==
    [startIndex |-> fn.startIndex,
     endIndex |-> fn.endIndex,
     uniqueKey |-> uniqueKey(relativePath, language, hash(fullBody(fn.body)))]

\* parser.ts (current version): Java goes to the regex locator and an
\* unsupported language gives [].  Python goes to an external process (see
\* parsePythonWithAST below) and JavaScript/TypeScript to Babel; no state of
\* the specifications below scans a JavaScript or TypeScript file.
parseFunctions(text, language) ==
    IF language = "java" THEN parseJavaWithRegex(text) ELSE <<>>

\* The spans and keys a command computes for the functions of a Java text
\* (the locator runs once; its result is the value bound to fs or ms).
KeysOf(path, t) ==
    IF path = "scanCommand"
    THEN CHOOSE keys \in
             { [i \in 1..Len(fs) |-> ScanCommandKey(fs[i], RelativePath, "java")] :
                 fs \in {parseFunctions(t, "java")} } : TRUE
    ELSE CHOOSE keys \in
             { [i \in 1..Len(ms) |-> DocumentFunctionsKey(t, ms[i], RelativePath, "java")] :
                 ms \in {MatchesFrom("java", t, 0)} } : TRUE

-----------------------------------------------------------------------------
(* SpecKey: one edit of a function's text, keys computed before and after *)

MaxBodyFrags == 2

BodyFrags == {Stmt, Block, <<"\n">>}

KeyTexts ==
    { lead \o sig \o Flatten(mid) \o <<"}">> :
        lead \in {<<>>, <<"\n">>},
        sig \in {JavaSigF, JavaSigG},
        mid \in UNION {[1..n -> BodyFrags] : n \in 0..MaxBodyFrags} }

KeyInit ==
    /\ DocIdle /\ LocIdle /\ AstIdle /\ ScanIdle /\ CmdIdle
    /\ kText \in KeyTexts
    /\ kPath \in {"scanCommand", "documentFunctions"}
    /\ kStage = "fresh"
    /\ kEdit = [kind |-> "none", pos |-> 0, ch |-> " "]
    /\ kEdited = <<>>
    /\ kBefore = <<>>
    /\ kAfter = <<>>

\* The user inserts one whitespace character before offset pos.
Reformat ==
    /\ kStage = "fresh"
    /\ \E pos \in 0..Len(kText), ch \in {" ", "\n"} :
          /\ kEdit' = [kind |-> "ws", pos |-> pos, ch |-> ch]
          /\ kEdited' = SubSeq(kText, 1, pos) \o <<ch>> \o SubSeq(kText, pos + 1, Len(kText))
    /\ kStage' = "edited"
    /\ UNCHANGED <<kText, kPath, kBefore, kAfter, docVars, locVars, astVars, scanVars, cmdVars>>

\* The user overwrites the token character at offset pos by another one.
EditToken ==
    /\ kStage = "fresh"
    /\ \E pos \in 0..(Len(kText) - 1), ch \in {"z", "+"} :
          /\ ~IsWs(kText[pos + 1])
          /\ kText[pos + 1] \notin {"{", "}", "(", ")"}
          /\ kEdit' = [kind |-> "token", pos |-> pos, ch |-> ch]
          /\ kEdited' = [kText EXCEPT ![pos + 1] = ch]
    /\ kStage' = "edited"
    /\ UNCHANGED <<kText, kPath, kBefore, kAfter, docVars, locVars, astVars, scanVars, cmdVars>>

\* The command computes the keys of the text as it was and as it is now.
ComputeKeys ==
    /\ kStage = "edited"
    /\ kBefore' = KeysOf(kPath, kText)
    /\ kAfter' = KeysOf(kPath, kEdited)
    /\ kStage' = "keyed"
    /\ UNCHANGED <<kText, kPath, kEdit, kEdited, docVars, locVars, astVars, scanVars, cmdVars>>

KeyNext == Reformat \/ EditToken \/ ComputeKeys

SpecKey == KeyInit /\ [][KeyNext]_vars

\* Offset of the "{" opening the body of the function located at startIndex.
BodyOpen(t, startIndex) == MinOf({j \in startIndex..(Len(t) - 1) : t[j + 1] = "{"})

\* Offset pos lies inside the braces of the function located at startIndex;
\* for an insertion, pos = close is the gap just before the closing brace.
InsideBody(t, startIndex, pos) ==
    LET open == BodyOpen(t, startIndex)
        close == BalancingClose(t, open)
    IN close >= 0 /\ open < pos /\ pos <= close

\* The inserted character lands between two word characters.
SplitsToken ==
    /\ kEdit.pos > 0 /\ kEdit.pos < Len(kText)
    /\ IsWord(kText[kEdit.pos]) /\ IsWord(kText[kEdit.pos + 1])

\* The inserted character lands next to an existing whitespace character.
NextToWhitespace ==
    \/ kEdit.pos > 0 /\ IsWs(kText[kEdit.pos])
    \/ kEdit.pos < Len(kText) /\ IsWs(kText[kEdit.pos + 1])

\* The function located at the start of kBefore[i] is located again after
\* the edit, with the same key.
SameKeyAfter(i) ==
    \E j \in 1..Len(kAfter) :
        /\ kAfter[j].startIndex = kBefore[i].startIndex
        /\ kAfter[j].uniqueKey = kBefore[i].uniqueKey

\* C4: inserting a whitespace character inside a function's
\* body, anywhere that splits no token, leaves the function's identity key
\* unchanged.
C4_ReformatKeepsKey ==
    (kStage = "keyed" /\ kEdit.kind = "ws" /\ ~SplitsToken) =>
        \A i \in 1..Len(kBefore) :
            InsideBody(kText, kBefore[i].startIndex, kEdit.pos) => SameKeyAfter(i)

\* Lengthening an existing whitespace run inside a function's body leaves the
\* function's identity key unchanged.
WhitespaceRunKeepsKey ==
    (kStage = "keyed" /\ kEdit.kind = "ws" /\ NextToWhitespace) =>
        \A i \in 1..Len(kBefore) :
            InsideBody(kText, kBefore[i].startIndex, kEdit.pos) => SameKeyAfter(i)

-----------------------------------------------------------------------------
(* jsTsAstParser: the Babel traversal over the function-like nodes *)

\* handleFunctionNode without its first line.
handleFunctionNodeUnguarded(results, node, name, language) ==
    Append(results,
           [name |-> name, params |-> node.params, returnType |-> node.returnType,
            startIndex |-> node.start, endIndex |-> node.end,
            body |-> node.code, language |-> language])

\* handleFunctionNode: `if (!name || name === "anonymous") return;`, else the
\* descriptor is pushed.  The parameters, return type and code of a node are
\* what extractParams and the Babel generator give for it.
handleFunctionNode(results, node, name, language) ==
    IF name = <<>> \/ name = Anonymous THEN results
    ELSE Append(results,
                [name |-> name, params |-> node.params, returnType |-> node.returnType,
                 startIndex |-> node.start, endIndex |-> node.end,
                 body |-> node.code, language |-> language])

\* The name each visitor passes to handleFunctionNode.
VisitorName(node) ==
    IF node.type \in {"FunctionDeclaration", "FunctionExpression", "TSDeclareFunction"}
    THEN IF node.idName # Undefined THEN node.idName ELSE Anonymous
    ELSE IF node.type = "ArrowFunctionExpression"
    THEN IF node.parentType = "VariableDeclarator" /\ node.parentIdType = "Identifier"
         THEN node.parentIdName ELSE Anonymous
    ELSE IF node.keyName # Undefined THEN node.keyName ELSE Anonymous

-----------------------------------------------------------------------------
(* SpecAst: parseJSTSWithAST over small files *)

MaxNodes == 2

\* The shapes of function-like node a JavaScript/TypeScript file can hold.
Shape(type, idName, parentType, parentIdType, parentIdName, keyName) ==
    [type |-> type, idName |-> idName, parentType |-> parentType,
     parentIdType |-> parentIdType, parentIdName |-> parentIdName, keyName |-> keyName]

NodeShapes ==
    { Shape("FunctionDeclaration", <<"f">>, "Program", "none", Undefined, Undefined),
      Shape("FunctionDeclaration", Undefined, "ExportDefaultDeclaration", "none", Undefined, Undefined),
      Shape("FunctionDeclaration", Anonymous, "Program", "none", Undefined, Undefined),
      Shape("FunctionExpression", Undefined, "CallExpression", "none", Undefined, Undefined),
      Shape("FunctionExpression", <<"g">>, "CallExpression", "none", Undefined, Undefined),
      Shape("FunctionExpression", Undefined, "VariableDeclarator", "Identifier", <<"e">>, Undefined),
      Shape("ArrowFunctionExpression", Undefined, "VariableDeclarator", "Identifier", <<"h">>, Undefined),
      Shape("ArrowFunctionExpression", Undefined, "VariableDeclarator", "ObjectPattern", Undefined, Undefined),
      Shape("ArrowFunctionExpression", Undefined, "CallExpression", "none", Undefined, Undefined),
      Shape("ClassMethod", Undefined, "ClassBody", "none", Undefined, <<"m">>),
      Shape("ClassMethod", Undefined, "ClassBody", "none", Undefined, Undefined),
      Shape("TSDeclareFunction", <<"d">>, "Program", "none", Undefined, Undefined) }

\* The i-th node of a file: its shape, its span and its generated code.
NodeAt(shape, i) ==
    [type |-> shape.type, idName |-> shape.idName, parentType |-> shape.parentType,
     parentIdType |-> shape.parentIdType, parentIdName |-> shape.parentIdName,
     keyName |-> shape.keyName,
     start |-> 10 * (i - 1), end |-> 10 * (i - 1) + 8,
     params |-> <<>>, returnType |-> Undefined, code |-> <<"c", i>>]

AstInit ==
    /\ DocIdle /\ LocIdle /\ KeyIdle /\ ScanIdle /\ CmdIdle
    /\ \E n \in 0..MaxNodes : \E shapes \in [1..n -> NodeShapes] :
          aNodes = [i \in 1..n |-> NodeAt(shapes[i], i)]
    /\ aLang \in {"javascript", "typescript"}
    /\ aStage = "parse"
    /\ aPos = 1
    /\ aResults = <<>>

\* babelParser.parse succeeds and the traversal starts.
AstParse ==
    /\ aStage = "parse"
    /\ aStage' = "traverse"
    /\ UNCHANGED <<aNodes, aLang, aPos, aResults, docVars, locVars, keyVars, scanVars, cmdVars>>

\* babelParser.parse throws: the catch block returns [].
AstParseError ==
    /\ aStage = "parse"
    /\ aStage' = "failed"
    /\ aResults' = <<>>
    /\ UNCHANGED <<aNodes, aLang, aPos, docVars, locVars, keyVars, scanVars, cmdVars>>

\* The traversal enters the next function-like node and runs its visitor.
AstVisit ==
    /\ aStage = "traverse"
    /\ aPos <= Len(aNodes)
    /\ aResults' = handleFunctionNode(aResults, aNodes[aPos], VisitorName(aNodes[aPos]), aLang)
    /\ aPos' = aPos + 1
    /\ UNCHANGED <<aNodes, aLang, aStage, docVars, locVars, keyVars, scanVars, cmdVars>>

\* The traversal is over: parseJSTSWithAST returns results.
AstReturn ==
    /\ aStage = "traverse"
    /\ aPos > Len(aNodes)
    /\ aStage' = "done"
    /\ UNCHANGED <<aNodes, aLang, aPos, aResults, docVars, locVars, keyVars, scanVars, cmdVars>>

AstNext == AstParse \/ AstParseError \/ AstVisit \/ AstReturn

SpecAst == AstInit /\ [][AstNext]_vars

\* The name of a node cannot be resolved: it has no identifier of its own,
\* is not an arrow function bound to a single identifier, has no key name.
Unresolved(node) ==
    IF node.type = "ArrowFunctionExpression"
    THEN ~(node.parentType = "VariableDeclarator" /\ node.parentIdType = "Identifier")
    ELSE IF node.type = "ClassMethod" THEN node.keyName = Undefined
    ELSE node.idName = Undefined

\* The descriptors of the result that were made from the node starting at start.
DescriptorsAt(start) == {k \in 1..Len(aResults) : aResults[k].startIndex = start}

BoundToIdentifier(node) ==
    /\ node.type \in {"FunctionExpression", "ArrowFunctionExpression"}
    /\ node.parentType = "VariableDeclarator"
    /\ node.parentIdType = "Identifier"

\* C23: every function expression and every arrow function assigned to a
\* single identifier binding is in the AST locator's result under the name
\* of the binding.
C23_NameByBinding ==
    aStage = "done" =>
        \A i \in 1..Len(aNodes) :
            BoundToIdentifier(aNodes[i]) =>
                \E k \in DescriptorsAt(aNodes[i].start) :
                    aResults[k].name = aNodes[i].parentIdName

-----------------------------------------------------------------------------
(* The full-file scan command (autodocgen.scanCurrentFile) *)

\* document.getText()
getText(doc) == JoinWith(doc, "\n")

\* document.positionAt(offset): the offset is clamped to the text, the line
\* is the number of line breaks before it.
positionAt(doc, offset) ==
    LET t == getText(doc)
        o == IF offset < 0 THEN 0 ELSE IF offset > Len(t) THEN Len(t) ELSE offset
        breaks == {i \in 1..o : t[i] = "\n"}
    IN [line |-> Cardinality(breaks),
        character |-> IF breaks = {} THEN o ELSE o - MaxOf(breaks)]

\* A line count that admits the line just past the last one.
lineCountLoose(doc) == Len(doc) + 1

\* document.lineCount
lineCount(doc) == Len(doc)

\* The doc block the template version builds for a descriptor.
TemplateDocText(language, fn) ==
    IF language = "python"
    THEN <<"\"", "\"", "\"", "\n">>
         \o Flatten([i \in 1..Len(fn.params) |->
                        <<":", "p", "a", "r", "a", "m", " ">> \o fn.params[i].name \o <<":", " ", "\n">>])
         \o <<":", "r", "e", "t", "u", "r", "n", "s", ":", " ", "\n", "\"", "\"", "\"", "\n">>
    ELSE IF language = "typescript"
    THEN <<"/", "*", "*", "\n">>
         \o Flatten([i \in 1..Len(fn.params) |->
                        <<" ", "*", " ", "@", "p", "a", "r", "a", "m", " ", "{">>
                        \o (IF fn.params[i].type # Undefined THEN fn.params[i].type ELSE <<"a", "n", "y">>)
                        \o <<"}", " ">> \o fn.params[i].name \o <<"\n">>])
         \o <<" ", "*", " ", "@", "r", "e", "t", "u", "r", "n", "s", " ", "{">>
         \o (IF fn.returnType # Undefined THEN fn.returnType ELSE <<"v", "o", "i", "d">>)
         \o <<"}", " ", "\n", " ", "*", "/", "\n">>
    ELSE <<"/", "*", "*", "\n">>
         \o Flatten([i \in 1..Len(fn.params) |->
                        <<" ", "*", " ", "@", "p", "a", "r", "a", "m", " ">> \o fn.params[i].name \o <<"\n">>])
         \o <<" ", "*", " ", "@", "r", "e", "t", "u", "r", "n", "s", " ", "\n", " ", "*", "/", "\n">>

\* What generateDocFromGroq / generateDocFromLocalModel resolve to: undefined
\* on any failure or empty answer, else the model's text.
CollaboratorAnswers ==
    { Undefined,
      <<"/", "*", "*", " ", "d", " ", "*", "/">>,
      <<"/", "*", "*", "\n", " ", "*", " ", "d", "\n", " ", "*", "/">> }

\* An insertion that lands one line below the position it was given.
editsInsertBelow(edits, line, character, newText) ==
    Append(edits, [line |-> line + 1, character |-> character, newText |-> newText])

\* edits.insert(document.uri, new vscode.Position(line, character), newText)
editsInsert(edits, line, character, newText) ==
    Append(edits, [line |-> line, character |-> character, newText |-> newText])

\* The texts inserted at the start of a line, in the order they were added.
RECURSIVE InsertedAt(_, _)
InsertedAt(edits, line) ==
    IF edits = <<>> THEN <<>>
    ELSE (IF edits[1].line = line THEN edits[1].newText ELSE <<>>)
         \o InsertedAt(Tail(edits), line)

\* An apply that makes only the first insertion of the batch.
applyEditFirstOnly(doc, edits) ==
    SplitOn(JoinWith([i \in 1..Len(doc) |->
                         InsertedAt(SubSeq(edits, 1, 1), i - 1) \o doc[i]], "\n"), "\n")

\* vscode.workspace.applyEdit: every insertion is made against the document
\* as it is when the batch is applied (the scan inserts at column 0 only).
applyEdit(doc, edits) ==
    SplitOn(JoinWith([i \in 1..Len(doc) |-> InsertedAt(edits, i - 1) \o doc[i]], "\n"), "\n")

\* A field that the JSON of the Python parser leaves out reads as undefined.
Missing == <<"undefined">>

KwDef == <<"d", "e", "f", " ">>

\* The k-th smallest element of a set of integers.
Nth(S, k) == CHOOSE i \in S : Cardinality({j \in S : j < i}) = k - 1

\* python_parser.py reports one descriptor per def statement; startIndex and
\* endIndex are 1-based line numbers (scanCommand subtracts one).
PythonDescriptor(lines, i) ==
    LET txt == Trim(lines[i])
        open == MinOf({j \in 1..(Len(txt) + 1) : j = Len(txt) + 1 \/ txt[j] = "("})
    IN [name |-> SubSeq(txt, Len(KwDef) + 1, open - 1),
        params |-> <<>>,
        returnType |-> Undefined,
        startIndex |-> i,
        endIndex |-> i,
        body |-> txt,
        language |-> "python"]

PythonFunctions(text) ==
    LET lines == SplitOn(text, "\n")
        defs == {i \in 1..Len(lines) : StartsWith(Trim(lines[i]), KwDef)}
    IN [k \in 1..Cardinality(defs) |-> PythonDescriptor(lines, Nth(defs, k))]

\* parsePythonWithAST: the promise rejects when the process exits with a
\* non-zero code or prints no JSON, else it resolves with whatever JSON the
\* process printed.  The command does not validate that JSON: besides the
\* list of the def statements, an answer may carry a line number outside the
\* document or leave a body out.
parsePythonWithAST(text) ==
    LET fs == PythonFunctions(text)
        n == Len(SplitOn(text, "\n"))
    IN {[ok |-> TRUE, funcs |-> fs], [ok |-> FALSE, funcs |-> <<>>]}
       \cup (IF fs = <<>> THEN {}
             ELSE { [ok |-> TRUE, funcs |-> [fs EXCEPT ![1].startIndex = l]] : l \in {0, n + 1} }
                  \cup { [ok |-> TRUE, funcs |-> [fs EXCEPT ![Len(fs)].body = Missing]] })

\* The ways `await parseFunctions(text, language)` settles.
ParseOutcomes(text, language) ==
    IF language = "python" THEN parsePythonWithAST(text)
    ELSE {[ok |-> TRUE, funcs |-> parseFunctions(text, language)]}

-----------------------------------------------------------------------------
(* Spec: scans, user edits and history resets of one file *)

MaxScans == 2

MaxUserEdits == 1

\* A function with one parameter at the top of the file.
DocA == << <<"t", " ", "f", "(", "t", " ", "a", ")", " ", "{">>, <<"}">> >>

\* Two annotated methods with the same text, the first under a doc block.
DocB ==
    << <<"/", "*", "*">>, <<" ", "*", "/">>, <<"@", "O">>, <<"t", " ", "g", "(", ")", " ", "{">>, <<"}">>,
       <<"@", "O">>, <<"t", " ", "g", "(", ")", " ", "{">>, <<"}">> >>

\* Two functions, one after the other.
DocC == << <<"t", " ", "f", "(", ")", " ", "{">>, <<"}">>, <<"t", " ", "g", "(", ")", " ", "{">>, <<"}">> >>

ScanDocs == {DocA, DocB, DocC}

\* A Python file with two functions.
DocP == << <<"d", "e", "f", " ", "f", "(", ")", ":">>, <<"d", "e", "f", " ", "g", "(", ")", ":">> >>

ScanCommands == {"scan", "scanGenFailed", "scanSkipped", "cancelled", "parseFailed", "threw"}

\* How a scan that ran through its loop is logged: with a collaborator
\* failure, with a descriptor skipped for its line, or plainly.
ScanEnded ==
    IF sGenFailed THEN "scanGenFailed"
    ELSE IF \E i \in 1..Len(sOutcomes) : sOutcomes[i] = "invalid" THEN "scanSkipped"
    ELSE "scan"

IsScanCommand(e) == e \in ScanCommands

IsUserEdit(e) == e = "edit"

ScansRun == Len(SelectSeq(sLog, IsScanCommand))

UserEditsMade == Len(SelectSeq(sLog, IsUserEdit))

ScanInit ==
    /\ DocIdle /\ LocIdle /\ KeyIdle /\ AstIdle /\ CmdIdle
    /\ sVersion \in {"llm", "template"}
    /\ \/ sLanguage = "java" /\ sDocument \in ScanDocs
       \/ sLanguage = "plaintext" /\ sDocument = DocA
       \/ sLanguage = "python" /\ sDocument = DocP
    /\ sHistoryFile = [exists |-> FALSE, keys |-> {}]
    /\ sPc = "idle"
    /\ sText = <<>>
    /\ sHistory = {}
    /\ sParsedFuncs = <<>>
    /\ sIdx = 0
    /\ sEdits = <<>>
    /\ sInsertedCount = 0
    /\ sCurrentLine = 0
    /\ sUniqueKey = <<>>
    /\ sDocText = <<>>
    /\ sGenFailed = FALSE
    /\ sLog = <<>>
    /\ sOutcomes = <<>>
    /\ sHistoryChanged = FALSE
    /\ sHistoryWritten = FALSE

\* The command starts: it reads the text and the history record.  The LLM
\* version then settles the generation mode and returns when the user
\* dismisses the choice or the local model is not available.
ScanStart ==
    /\ sPc = "idle"
    /\ ScansRun < MaxScans
    /\ sText' = getText(sDocument)
    /\ sHistory' = IF sHistoryFile.exists THEN sHistoryFile.keys ELSE {}
    /\ sGenFailed' = FALSE
    /\ sEdits' = <<>>
    /\ sParsedFuncs' = <<>>
    /\ sIdx' = 0
    /\ sInsertedCount' = 0
    /\ sOutcomes' = <<>>
    /\ sHistoryChanged' = FALSE
    /\ sHistoryWritten' = FALSE
    /\ \E proceed \in (IF sVersion = "llm" THEN BOOLEAN ELSE {TRUE}) :
          IF proceed
          THEN sPc' = "parse" /\ sLog' = sLog
          ELSE sPc' = "idle" /\ sLog' = Append(sLog, "cancelled")
    /\ UNCHANGED <<sVersion, sLanguage, sDocument, sHistoryFile,
                   sCurrentLine, sUniqueKey, sDocText,
                   docVars, locVars, keyVars, astVars, cmdVars>>

\* parsedFuncs = await parseFunctions(text, language); when the promise
\* rejects the command shows an error and returns.
ScanParse ==
    /\ sPc = "parse"
    /\ \E outcome \in ParseOutcomes(sText, sLanguage) :
          IF outcome.ok
          THEN /\ sParsedFuncs' = outcome.funcs
               /\ sIdx' = 1
               /\ sPc' = "loop"
               /\ sLog' = sLog
          ELSE /\ sParsedFuncs' = <<>>
               /\ sIdx' = 0
               /\ sPc' = "idle"
               /\ sLog' = Append(sLog, "parseFailed")
    /\ sEdits' = <<>>
    /\ sInsertedCount' = 0
    /\ UNCHANGED <<sVersion, sLanguage, sDocument, sHistoryFile, sText, sHistory,
                   sCurrentLine, sUniqueKey, sDocText, sGenFailed, scanTrace,
                   docVars, locVars, keyVars, astVars, cmdVars>>

\* One iteration of `for (const fn of parsedFuncs)`: to its end in the
\* template version, to the await of the collaborator in the LLM version.
\* fn.body.replace throws on a descriptor without a body: the exception
\* leaves the command, which ends there.
ScanFunction ==
    /\ sPc = "loop"
    /\ sIdx <= Len(sParsedFuncs)
    /\ LET fn == sParsedFuncs[sIdx]
           currentLine == IF sLanguage = "python" THEN fn.startIndex - 1
                          ELSE positionAt(sDocument, fn.startIndex).line
           key == uniqueKey(RelativePath, sLanguage, hash(fullBody(fn.body)))
           hasDoc == hasDocCommentAbove(sDocument, currentLine)
           docText == TemplateDocText(sLanguage, fn)
       IN /\ sCurrentLine' = currentLine
          /\ IF currentLine < 0 \/ currentLine >= lineCount(sDocument)
             THEN /\ sIdx' = sIdx + 1
                  /\ sOutcomes' = Append(sOutcomes, "invalid")
                  /\ UNCHANGED <<sPc, sHistory, sEdits, sInsertedCount, sUniqueKey, sDocText,
                                 sLog, sHistoryChanged>>
             ELSE IF fn.body = Missing
             THEN /\ sPc' = "idle"
                  /\ sLog' = Append(sLog, "threw")
                  /\ sOutcomes' = Append(sOutcomes, "threw")
                  /\ UNCHANGED <<sIdx, sHistory, sEdits, sInsertedCount, sUniqueKey, sDocText,
                                 sHistoryChanged>>
             ELSE IF hasDoc
             THEN /\ sHistory' = sHistory \cup {key}
                  /\ sHistoryChanged' = (sHistoryChanged \/ key \notin sHistory)
                  /\ sUniqueKey' = key
                  /\ sIdx' = sIdx + 1
                  /\ sOutcomes' = Append(sOutcomes, "documented")
                  /\ UNCHANGED <<sPc, sEdits, sInsertedCount, sDocText, sLog>>
             ELSE IF sVersion = "llm"
             THEN /\ sHistory' = sHistory \ {key}
                  /\ sHistoryChanged' = (sHistoryChanged \/ key \in sHistory)
                  /\ sUniqueKey' = key
                  /\ sPc' = "gen"
                  /\ UNCHANGED <<sIdx, sEdits, sInsertedCount, sDocText, sLog, sOutcomes>>
             ELSE /\ sDocText' = docText
                  /\ sEdits' = editsInsert(sEdits, currentLine, 0, docText)
                  /\ sHistory' = (sHistory \ {key}) \cup {key}
                  /\ sHistoryChanged' = TRUE
                  /\ sUniqueKey' = key
                  /\ sInsertedCount' = sInsertedCount + 1
                  /\ sIdx' = sIdx + 1
                  /\ sOutcomes' = Append(sOutcomes, "inserted")
                  /\ UNCHANGED <<sPc, sLog>>
    /\ UNCHANGED <<sVersion, sLanguage, sDocument, sHistoryFile, sText, sParsedFuncs,
                   sGenFailed, sHistoryWritten, docVars, locVars, keyVars, astVars, cmdVars>>

\* The collaborator answers and the iteration of the LLM version ends.
GenerateReturn ==
    /\ sPc = "gen"
    /\ \E answer \in CollaboratorAnswers :
          /\ sDocText' = answer
          /\ IF answer = <<>>
             THEN /\ sGenFailed' = TRUE
                  /\ sOutcomes' = Append(sOutcomes, "failed")
                  /\ UNCHANGED <<sEdits, sHistory, sInsertedCount, sHistoryChanged>>
             ELSE /\ sEdits' = editsInsert(sEdits, sCurrentLine, 0, answer \o <<"\n">>)
                  /\ sHistory' = sHistory \cup {sUniqueKey}
                  /\ sHistoryChanged' = TRUE
                  /\ sInsertedCount' = sInsertedCount + 1
                  /\ sOutcomes' = Append(sOutcomes, "inserted")
                  /\ UNCHANGED sGenFailed
    /\ sIdx' = sIdx + 1
    /\ sPc' = "loop"
    /\ UNCHANGED <<sVersion, sLanguage, sDocument, sHistoryFile, sText, sParsedFuncs,
                   sCurrentLine, sUniqueKey, sLog, sHistoryWritten,
                   docVars, locVars, keyVars, astVars, cmdVars>>

\* After the loop: the record is written when it has a key, the batch is
\* handed to applyEdit when something was inserted, else the command ends.
ScanFinish ==
    /\ sPc = "loop"
    /\ sIdx > Len(sParsedFuncs)
    /\ sHistoryFile' = IF sHistory # {} THEN [exists |-> TRUE, keys |-> sHistory]
                       ELSE sHistoryFile
    /\ sHistoryWritten' = (sHistory # {})
    /\ IF sInsertedCount > 0
       THEN sPc' = "apply" /\ sLog' = sLog
       ELSE /\ sPc' = "idle"
            /\ sLog' = Append(sLog, ScanEnded)
    /\ UNCHANGED <<sVersion, sLanguage, sDocument, sHistory, sEdits, sGenFailed,
                   scanLocals, sOutcomes, sHistoryChanged, docVars, locVars, keyVars, astVars, cmdVars>>

\* await vscode.workspace.applyEdit(edits) completes and the command ends.
ScanApply ==
    /\ sPc = "apply"
    /\ sDocument' = applyEdit(sDocument, sEdits)
    /\ sPc' = "idle"
    /\ sLog' = Append(sLog, ScanEnded)
    /\ UNCHANGED <<sVersion, sLanguage, sHistoryFile, sHistory, sEdits, sGenFailed,
                   scanLocals, scanTrace, docVars, locVars, keyVars, astVars, cmdVars>>

\* Between commands the user deletes one line of the document.
UserEdit ==
    /\ sPc = "idle"
    /\ UserEditsMade < MaxUserEdits
    /\ Len(sDocument) > 1
    /\ \E i \in 1..Len(sDocument) :
          sDocument' = SubSeq(sDocument, 1, i - 1) \o SubSeq(sDocument, i + 1, Len(sDocument))
    /\ sLog' = Append(sLog, "edit")
    /\ UNCHANGED <<sVersion, sLanguage, sHistoryFile, sPc, sHistory, sEdits, sGenFailed,
                   scanLocals, scanTrace, docVars, locVars, keyVars, astVars, cmdVars>>

\* autodocgen.resetDocHistory: the history file is unlinked when it exists.
ResetDocHistory ==
    /\ sPc = "idle"
    /\ sHistoryFile.exists
    /\ sHistoryFile' = [exists |-> FALSE, keys |-> {}]
    /\ sLog' = Append(sLog, "reset")
    /\ UNCHANGED <<sVersion, sLanguage, sDocument, sPc, sHistory, sEdits, sGenFailed,
                   scanLocals, scanTrace, docVars, locVars, keyVars, astVars, cmdVars>>

ScanNext ==
    \/ ScanStart
    \/ ScanParse
    \/ ScanFunction
    \/ GenerateReturn
    \/ ScanFinish
    \/ ScanApply
    \/ UserEdit
    \/ ResetDocHistory

Spec == ScanInit /\ [][ScanNext]_vars

\* C1: after two full-file scans in a row, each run to its end with its
\* batch applied and its record persisted, no collaborator failure and no
\* user edit or reset in between, the second scan has emitted no edit.
C1_ScanIdempotent ==
    (sPc = "idle" /\ sLog = <<"scan", "scan">>) => sEdits = <<>>

\* The line and the key the scan resolves for descriptor i.
LineOfDescriptor(i) ==
    IF sLanguage = "python" THEN sParsedFuncs[i].startIndex - 1
    ELSE positionAt(sDocument, sParsedFuncs[i].startIndex).line

KeyOfDescriptor(i) ==
    <<RelativePath, sLanguage, <<"md5", CollapseWs(sParsedFuncs[i].body)>> >>

ValidLine(i) == LineOfDescriptor(i) >= 0 /\ LineOfDescriptor(i) < Len(sDocument)

\* The step that ends the loop of a scan: the record is persisted (when it
\* holds a key) and the command goes on to apply its batch or ends.
LoopEnds == sPc = "loop" /\ sPc' \in {"apply", "idle"} /\ sIdx > Len(sParsedFuncs)

\* C9: a step that reconciles a descriptor with a valid line and a doc
\* comment above it emits no edit, and when the scan has gone through the
\* loop and persists the record, the key of every such descriptor is in the
\* record with value true.
C9_DocumentedBranch ==
    [][ /\ (sPc = "loop" /\ sIdx' = sIdx + 1 /\ ValidLine(sIdx)
              /\ hasDocCommentAbove(sDocument, LineOfDescriptor(sIdx)))
           => sEdits' = sEdits
        /\ LoopEnds
           => \A i \in 1..Len(sParsedFuncs) :
                 (ValidLine(i) /\ hasDocCommentAbove(sDocument, LineOfDescriptor(i)))
                    => (sHistoryFile'.exists /\ KeyOfDescriptor(i) \in sHistoryFile'.keys)
      ]_vars

C11_GenerationFailure ==
    [][ /\ (sPc = "gen" /\ sDocText' = <<>>) => sEdits' = sEdits
        /\ LoopEnds
           => \A i \in 1..Len(sOutcomes) :
                 sOutcomes[i] = "failed"
                    => ~(sHistoryFile'.exists /\ KeyOfDescriptor(i) \in sHistoryFile'.keys)
      ]_vars

\* C12: the step that meets a descriptor whose resolved line is below 0 or
\* at/after the document's line count emits no edit, changes neither the
\* in-memory nor the persisted record and leaves the loop at the next
\* descriptor; a scan that goes through its loop has dealt with every
\* descriptor.
C12_UnmappableSpan ==
    [][ /\ (sPc = "loop" /\ sIdx <= Len(sParsedFuncs) /\ ~ValidLine(sIdx))
           => /\ sEdits' = sEdits
              /\ sHistory' = sHistory
              /\ sHistoryFile' = sHistoryFile
              /\ sPc' = "loop"
              /\ sIdx' = sIdx + 1
        /\ LoopEnds => Len(sOutcomes) = Len(sParsedFuncs)
      ]_vars

\* A scan has skipped a descriptor for its line and has inserted above or
\* found documented a later descriptor.
C12_Witness ==
    \E i, j \in 1..Len(sOutcomes) :
        /\ i < j
        /\ sOutcomes[i] = "invalid"
        /\ sOutcomes[j] \in {"documented", "inserted"}

\* C13: a scan writes the history record to storage only if one of its
\* assignments or deletes changed an entry of the record: a scan that has
\* changed no entry has performed no write.
C13_WriteOnlyIfChanged == sHistoryWritten => sHistoryChanged

\* C14: the step that reconciles a descriptor with a valid line, no doc
\* comment above it and its key recorded as true in the history record (in
\* the record as an earlier scan persisted it, and still in the record the
\* scan holds) skips it: the step emits no edit and goes on with the loop
\* without handing the function to doc generation.
C14_SkipOnHistory ==
    [][ (/\ sPc = "loop"
         /\ sIdx <= Len(sParsedFuncs)
         /\ ValidLine(sIdx)
         /\ sParsedFuncs[sIdx].body # Missing
         /\ ~hasDocCommentAbove(sDocument, LineOfDescriptor(sIdx))
         /\ sHistoryFile.exists
         /\ KeyOfDescriptor(sIdx) \in sHistoryFile.keys
         /\ KeyOfDescriptor(sIdx) \in sHistory)
        => /\ sEdits' = sEdits
           /\ sPc' = "loop"
           /\ sIdx' = sIdx + 1
      ]_vars

\* The number of line breaks in the texts of a batch of insertions.
LineBreaksIn(edits) ==
    Cardinality(UNION { { <<e, k>> : k \in {n \in 1..Len(edits[e].newText) :
                                                edits[e].newText[n] = "\n"} } :
                        e \in 1..Len(edits) })

\* A command that ended on a parser failure or on an exception in its loop.
ScanFailures == {"parseFailed", "threw"}

\* C15: a running scan changes the document in one step only, the step that
\* applies the batch, taken after every descriptor has been processed, and
\* that step makes every insertion of the batch (the document grows by the
\* lines of all the emitted texts); starting a scan leaves the document as it
\* is, and a scan that ends on a parser failure or on an exception while
\* processing a descriptor ends from the parse or the loop, before any apply,
\* with the document unchanged.
C15_AllOrNothing ==
    [][ /\ (sPc = "idle" /\ sPc' # "idle") => sDocument' = sDocument
        /\ (sPc # "idle" /\ sDocument' # sDocument)
           => /\ sPc = "apply"
              /\ sIdx > Len(sParsedFuncs)
              /\ Len(sOutcomes) = Len(sParsedFuncs)
              /\ Len(sDocument') = Len(sDocument) + LineBreaksIn(sEdits)
        /\ (sLog' # sLog /\ sLog'[Len(sLog')] \in ScanFailures)
           => /\ sPc \in {"parse", "loop"}
              /\ sDocument' = sDocument
      ]_vars

\* A scan of the Python file had emitted an insertion when a later
\* descriptor raised an exception: the command has ended and the document is
\* as it was.
C15_Witness ==
    /\ sPc = "idle"
    /\ sLog = <<"threw">>
    /\ sEdits # <<>>
    /\ sDocument = DocP

\* C16: in a history record as a scan has persisted it, every key (every key
\* present has the value true) is the key of a descriptor that this scan found
\* documented or emitted an insertion for.
C16_HistoryInvariant ==
    sHistoryWritten =>
        \A key \in sHistoryFile.keys :
            \E i \in 1..Len(sOutcomes) :
                /\ sOutcomes[i] \in {"documented", "inserted"}
                /\ KeyOfDescriptor(i) = key

\* C17: a scan persists the history record only after its batch of edits has
\* been applied: while the scan is locating functions, reconciling
\* descriptors or waiting for its batch to be applied, it has not written
\* the record.
C17_StepOrder ==
    sPc \in {"parse", "loop", "gen", "apply"} => ~sHistoryWritten

\* C24: the parse step of a scan always hands the command a descriptor list
\* (no rejection reaches the command), and a scan whose parser failed ends
\* with zero edits and the document as it was.
C24_ParseFailure ==
    [][ /\ sPc = "parse" => sPc' = "loop"
        /\ (sPc = "parse" /\ sPc' = "idle") => (sEdits' = <<>> /\ sDocument' = sDocument)
      ]_vars

\* The record a command reads from storage: {} when there is no file.
PersistedRecord == IF sHistoryFile.exists THEN sHistoryFile.keys ELSE {}

\* The last command was a full-file scan that ran through its loop to its end.
ScanCompleted ==
    sPc = "idle" /\ sLog # <<>> /\ sLog[Len(sLog)] \in {"scan", "scanGenFailed", "scanSkipped"}

\* C27: when a full-file scan has completed, the persisted record equals the
\* in-memory record of that scan.
C27_PersistedEqualsMemory == ScanCompleted => PersistedRecord = sHistory

-----------------------------------------------------------------------------
(* The selection scan command (autodocgen.documentSelection) *)

\* The languages the command's switch has a pattern for.
SelectionLanguages == {"python", "javascript", "typescript", "java"}

\* The doc block the template version builds for the selected function:
\* "exactly like in file scan", from the pieces of the raw parameter list
\* (name and type split at ":") and the return type searched from startIndex.
SelectionDocText(language, t, startIndex) ==
    LET pieces == ParamPieces(RawParams(t, startIndex))
    IN TemplateDocText(language,
                       [params |-> [i \in 1..Len(pieces) |-> ColonParam(pieces[i])],
                        returnType |-> ReturnTypeMatch(t, startIndex)])

\* One pass of `while ((match = regex.exec(text)) !== null)` down to the
\* containment test: the matches with their spans, and the first one whose
\* span holds the selection offset (0 when the loop runs out of matches).
SelectionSpans(language, t) ==
    CHOOSE spans \in
        { [i \in 1..Len(ms) |->
              [name |-> ms[i].g1,
               startIndex |-> ms[i].index,
               endIndex |-> DocFnBraceScan(t, ms[i].index, 0)]] :
            ms \in {MatchesFrom(language, t, 0)} } : TRUE

FirstEnclosing(spans, selectionOffset) ==
    LET hits == {i \in 1..Len(spans) :
                    spans[i].startIndex <= selectionOffset
                    /\ selectionOffset <= spans[i].endIndex}
    IN IF hits = {} THEN 0 ELSE MinOf(hits)

\* const fullBody = text.substring(startIndex, endIndex).replace(/\s+/g, " ")
\* and the key made from it.
SelectionKey(t, span, relativePath, language) ==
    uniqueKey(relativePath, language,
              hash(fullBody(SubSeq(t, span.startIndex + 1, span.endIndex))))

\* A size test that also takes the empty batch for a batch with an edit.
editsSizeLoose(edits) == Len(edits) + 1

\* edits.size
editsSize(edits) == Len(edits)

\* After the loop: "No function detected" when nothing was found, the batch
\* is applied and the record written when the batch has an edit, else
\* "Selected function already documented".
AfterSelectionLoop(foundOne, edits) ==
    IF ~foundOne THEN "idle"
    ELSE IF editsSize(edits) > 0 THEN "apply"
    ELSE "idle"

-----------------------------------------------------------------------------
(* SpecSel: selection scans of one file *)

MaxSelScans == 2

\* A Python file with two functions that have bodies.
DocQ ==
    << <<"d", "e", "f", " ", "f", "(", "a", ")", ":">>, <<" ", "x">>,
       <<"d", "e", "f", " ", "g", "(", ")", ":">>, <<" ", "y">> >>

\* An annotated method under a doc block.
DocD ==
    << <<"/", "*", "*">>, <<" ", "*", "/">>, <<"@", "O">>,
       <<"t", " ", "f", "(", ")", " ", "{">>, <<"}">> >>

SelInit ==
    /\ DocIdle /\ LocIdle /\ KeyIdle /\ AstIdle /\ ScanIdle /\ ParIdle
    /\ cVersion \in {"llm", "template"}
    /\ \/ cLanguage = "java" /\ cDocument \in {DocA, DocC, DocD}
       \/ cLanguage = "plaintext" /\ cDocument = DocA
       \/ cLanguage = "python" /\ cDocument \in {DocP, DocQ}
    /\ cHistoryFile = [exists |-> FALSE, keys |-> {}]
    /\ cPc = "idle"
    /\ cSelectionOffset = 0
    /\ cText = <<>>
    /\ cHistory = {}
    /\ cFoundOne = FALSE
    /\ cEdits = <<>>
    /\ cMatch = NoFunction
    /\ cCurrentLine = 0
    /\ cUniqueKey = <<>>
    /\ cLog = <<>>

Finished(result) == Append(cLog, [result |-> result, name |-> cMatch.name])

\* The command starts with the cursor somewhere in the document: it takes
\* the offset and the text, returns for a language without a pattern, reads
\* the history record, and (LLM version) settles the generation mode.
SelStart ==
    /\ cPc = "idle"
    /\ Len(cLog) < MaxSelScans
    /\ \E selectionOffset \in 0..Len(getText(cDocument)) :
          cSelectionOffset' = selectionOffset
    /\ cText' = getText(cDocument)
    /\ cFoundOne' = FALSE
    /\ cEdits' = <<>>
    /\ cMatch' = NoFunction
    /\ IF cLanguage \notin SelectionLanguages
       THEN /\ cPc' = "idle"
            /\ cLog' = Append(cLog, [result |-> "unsupported", name |-> <<>>])
            /\ cHistory' = cHistory
       ELSE /\ cHistory' = IF cHistoryFile.exists THEN cHistoryFile.keys ELSE {}
            /\ \E proceed \in (IF cVersion = "llm" THEN BOOLEAN ELSE {TRUE}) :
                  IF proceed
                  THEN cPc' = "loop" /\ cLog' = cLog
                  ELSE /\ cPc' = "idle"
                       /\ cLog' = Append(cLog, [result |-> "cancelled", name |-> <<>>])
    /\ UNCHANGED <<cVersion, cLanguage, cDocument, cHistoryFile, cCurrentLine, cUniqueKey,
                   docVars, locVars, keyVars, astVars, scanVars, parVars>>

\* The while loop, to its break or its end: in the template version to the
\* statements after the loop, in the LLM version to the await of the
\* collaborator when the function has no doc comment.
SelLoop ==
    /\ cPc = "loop"
    /\ \E spans \in {SelectionSpans(cLanguage, cText)} :
       \E i \in {FirstEnclosing(spans, cSelectionOffset)} :
          IF i = 0
          THEN /\ cPc' = AfterSelectionLoop(FALSE, cEdits)
               /\ cLog' = Append(cLog, [result |-> "none", name |-> <<>>])
               /\ UNCHANGED <<cFoundOne, cMatch, cHistory, cEdits, cCurrentLine, cUniqueKey>>
          ELSE \E key \in {SelectionKey(cText, spans[i], RelativePath, cLanguage)},
                  currentLine \in {positionAt(cDocument, spans[i].startIndex).line},
                  docText \in {SelectionDocText(cLanguage, cText, spans[i].startIndex)} :
                  /\ cFoundOne' = TRUE
                  /\ cMatch' = spans[i]
                  /\ cUniqueKey' = key
                  /\ cCurrentLine' = currentLine
                  /\ IF hasDocCommentAbove(cDocument, currentLine)
                     THEN /\ cHistory' = cHistory \cup {key}
                          /\ cEdits' = cEdits
                          /\ cPc' = AfterSelectionLoop(TRUE, cEdits)
                          /\ cLog' = IF AfterSelectionLoop(TRUE, cEdits) = "idle"
                                     THEN Append(cLog, [result |-> "documented",
                                                        name |-> spans[i].name])
                                     ELSE cLog
                     ELSE IF cVersion = "llm"
                     THEN /\ cHistory' = cHistory \ {key}
                          /\ cEdits' = cEdits
                          /\ cPc' = "gen"
                          /\ cLog' = cLog
                     ELSE /\ cEdits' = editsInsert(cEdits, currentLine, 0, docText)
                          /\ cHistory' = (cHistory \ {key}) \cup {key}
                          /\ cPc' = AfterSelectionLoop(TRUE, editsInsert(cEdits, currentLine, 0, docText))
                          /\ cLog' = cLog
    /\ UNCHANGED <<cVersion, cLanguage, cDocument, cHistoryFile, cSelectionOffset, cText,
                   docVars, locVars, keyVars, astVars, scanVars, parVars>>

\* The collaborator answers: without a text the loop breaks with an empty
\* batch, else the text is inserted as it is and the key is recorded.
SelGenerateReturn ==
    /\ cPc = "gen"
    /\ \E answer \in CollaboratorAnswers :
          IF answer = <<>>
          THEN /\ cPc' = AfterSelectionLoop(TRUE, cEdits)
               /\ cLog' = IF AfterSelectionLoop(TRUE, cEdits) = "idle"
                          THEN Finished("genFailed") ELSE cLog
               /\ UNCHANGED <<cEdits, cHistory>>
          ELSE /\ cEdits' = editsInsert(cEdits, cCurrentLine, 0, answer)
               /\ cHistory' = cHistory \cup {cUniqueKey}
               /\ cPc' = AfterSelectionLoop(TRUE, editsInsert(cEdits, cCurrentLine, 0, answer))
               /\ cLog' = cLog
    /\ UNCHANGED <<cVersion, cLanguage, cDocument, cHistoryFile, cSelectionOffset, cText,
                   cFoundOne, cMatch, cCurrentLine, cUniqueKey,
                   docVars, locVars, keyVars, astVars, scanVars, parVars>>

\* await vscode.workspace.applyEdit(edits) completes.
SelApply ==
    /\ cPc = "apply"
    /\ cDocument' = applyEdit(cDocument, cEdits)
    /\ cPc' = "write"
    /\ UNCHANGED <<cVersion, cLanguage, cHistoryFile, cSelectionOffset, cText, cHistory,
                   cFoundOne, cEdits, cMatch, cCurrentLine, cUniqueKey, cLog,
                   docVars, locVars, keyVars, astVars, scanVars, parVars>>

\* fs.writeFileSync(historyPath, ...) and the command ends.
SelWrite ==
    /\ cPc = "write"
    /\ cHistoryFile' = [exists |-> TRUE, keys |-> cHistory]
    /\ cPc' = "idle"
    /\ cLog' = Finished("inserted")
    /\ UNCHANGED <<cVersion, cLanguage, cDocument, cSelectionOffset, cText, cHistory,
                   cFoundOne, cEdits, cMatch, cCurrentLine, cUniqueKey,
                   docVars, locVars, keyVars, astVars, scanVars, parVars>>

SelNext == SelStart \/ SelLoop \/ SelGenerateReturn \/ SelApply \/ SelWrite

SpecSel == SelInit /\ [][SelNext]_vars

\* The offset of the first character of the signature that a match holds:
\* the match without the whitespace it begins with.
SignatureStart(t, span) == SkipWs(t, span.startIndex + 1) - 1

\* The offset where the body of the function ends.  With braces: the "}"
\* that balances the first "{" of the signature (the end of the text when
\* there is none).  In Python, for a def statement at column 0: the line
\* break before the next line that starts at column 0 (the end of the text
\* when there is none).
BodyEnd(language, t, span) ==
    IF language = "python"
    THEN LET S == {k \in (SignatureStart(t, span) + 1)..(Len(t) - 2) :
                      t[k + 1] = "\n" /\ ~IsWs(t[k + 2])}
         IN IF S = {} THEN Len(t) ELSE MinOf(S)
    ELSE LET close == BalancingClose(t, BodyOpen(t, span.startIndex))
         IN IF close = -1 THEN Len(t) ELSE close

\* The definition, signature through end of body, encloses the offset.
DefinitionEncloses(language, t, span, offset) ==
    SignatureStart(t, span) <= offset /\ offset <= BodyEnd(language, t, span)

\* The located functions of the text whose definition encloses the offset.
EnclosingFunctions(language, t, offset) ==
    {i \in 1..Len(SelectionSpans(language, t)) :
        DefinitionEncloses(language, t, SelectionSpans(language, t)[i], offset)}

\* C21: the function a selection scan processes is the first located
\* function whose definition encloses the selection offset, so every edit of
\* the scan belongs to a function that encloses the selection; a scan that
\* reports no function had none enclosing the selection.
C21_SelectionEnclosed ==
    LET encl == EnclosingFunctions(cLanguage, cText, cSelectionOffset)
    IN /\ cFoundOne =>
            /\ encl # {}
            /\ cMatch = SelectionSpans(cLanguage, cText)[MinOf(encl)]
       /\ (cPc = "idle" /\ cLog # <<>> /\ cLog[Len(cLog)].result = "none") => encl = {}

\* The results of a selection scan that got as far as a function.
ProcessedResults == {"documented", "genFailed", "inserted"}

\* C25: when a selection scan has inserted a collaborator-generated doc block
\* for a function and the next selection scan processes the same function,
\* that scan finds it documented and emits zero edits.
C25_SelectionIdempotent ==
    ( /\ cVersion = "llm"
      /\ cPc = "idle"
      /\ Len(cLog) = 2
      /\ cLog[1].result = "inserted"
      /\ cLog[2].result \in ProcessedResults
      /\ cLog[2].name = cLog[1].name )
    => (cLog[2].result = "documented" /\ cEdits = <<>>)

ScanCommandKeysAt(t, startIndex) ==
    LET fs == parseFunctions(t, "java")
    IN {ScanCommandKey(fs[i], RelativePath, "java").uniqueKey :
           i \in {j \in 1..Len(fs) : fs[j].startIndex = startIndex}}

\* C29: for a Java function, the key the selection scan computes is the key
\* the full-file scan computes for the function located at the same place of
\* the same text.
C29_SameKey ==
    (cFoundOne /\ cLanguage = "java")
        => ScanCommandKeysAt(cText, cMatch.startIndex) = {cUniqueKey}

-----------------------------------------------------------------------------
(* SpecPar: two overlapping full-file scans of one file *)

MaxResets == 1

\* The two invocations of autodocgen.scanCurrentFile.
Invocations == {1, 2}

NotStarted ==
    [pc |-> "idle", text |-> <<>>, historyRead |-> {}, history |-> {},
     parsedFuncs |-> <<>>, idx |-> 0, edits |-> <<>>, insertedCount |-> 0,
     currentLine |-> 0, uniqueKey |-> <<>>, answers |-> <<>>,
     wrote |-> FALSE, written |-> {}, applied |-> FALSE]

\* A reconciliation that leaves a function alone when its key is in the
\* record.
ReconcileUnlessRecorded(history, key, hasDoc) ==
    IF hasDoc THEN [history |-> history \cup {key}, insert |-> FALSE]
    ELSE IF key \in history THEN [history |-> history, insert |-> FALSE]
    ELSE [history |-> history, insert |-> TRUE]

\* if (hasDoc) { history[uniqueKey] = true; continue; }
\* if (history[uniqueKey]) { delete history[uniqueKey]; }
Reconcile(history, key, hasDoc) ==
    IF hasDoc THEN [history |-> history \cup {key}, insert |-> FALSE]
    ELSE [history |-> history \ {key}, insert |-> TRUE]

\* The invocation is suspended at an await that another command can run
\* during (the choice of the generation mode, the Python process, the
\* collaborator, applyEdit), or it is not running.
Awaiting(q) ==
    \/ pScan[q].pc \in {"idle", "done", "gen", "apply"}
    \/ pScan[q].pc = "parse" /\ (pVersion = "llm" \/ pLanguage = "python")

\* The extension host runs one handler at a time up to its next await.
MayRun(p) == \A q \in Invocations \ {p} : Awaiting(q)

ParInit ==
    /\ DocIdle /\ LocIdle /\ KeyIdle /\ AstIdle /\ ScanIdle /\ SelIdle
    /\ pVersion \in {"llm", "template"}
    /\ \/ pLanguage = "java" /\ pDocument \in {DocA, DocC, DocD}
       \/ pLanguage = "python" /\ pDocument = DocP
    /\ pHistoryFile = [exists |-> FALSE, keys |-> {}]
    /\ pScan = [p \in Invocations |-> NotStarted]
    /\ pResets = 0

\* The command is invoked: it reads the text and the history record.  The
\* second invocation comes while the first is still running.
ParStart(p) ==
    /\ pScan[p].pc = "idle"
    /\ MayRun(p)
    /\ p = 2 => pScan[1].pc \notin {"idle", "done"}
    /\ \E proceed \in (IF pVersion = "llm" THEN BOOLEAN ELSE {TRUE}) :
          pScan' = [pScan EXCEPT ![p] =
                       [NotStarted EXCEPT
                          !.pc = IF proceed THEN "parse" ELSE "done",
                          !.text = getText(pDocument),
                          !.historyRead = IF pHistoryFile.exists THEN pHistoryFile.keys ELSE {},
                          !.history = IF pHistoryFile.exists THEN pHistoryFile.keys ELSE {}]]
    /\ UNCHANGED <<pVersion, pLanguage, pDocument, pHistoryFile, pResets,
                   docVars, locVars, keyVars, astVars, scanVars, selVars>>

\* parsedFuncs = await parseFunctions(text, language)
ParParse(p) ==
    /\ pScan[p].pc = "parse"
    /\ MayRun(p)
    /\ \E outcome \in ParseOutcomes(pScan[p].text, pLanguage) :
          pScan' = [pScan EXCEPT ![p] =
                       IF outcome.ok
                       THEN [@ EXCEPT !.parsedFuncs = outcome.funcs, !.idx = 1, !.pc = "loop"]
                       ELSE [@ EXCEPT !.pc = "done"]]
    /\ UNCHANGED <<pVersion, pLanguage, pDocument, pHistoryFile, pResets,
                   docVars, locVars, keyVars, astVars, scanVars, selVars>>

\* One iteration of `for (const fn of parsedFuncs)`: to its end in the
\* template version, to the await of the collaborator in the LLM version.
ParFunction(p) ==
    /\ pScan[p].pc = "loop"
    /\ MayRun(p)
    /\ pScan[p].idx <= Len(pScan[p].parsedFuncs)
    /\ LET me == pScan[p]
           fn == me.parsedFuncs[me.idx]
           currentLine == IF pLanguage = "python" THEN fn.startIndex - 1
                          ELSE positionAt(pDocument, fn.startIndex).line
           key == uniqueKey(RelativePath, pLanguage, hash(fullBody(fn.body)))
           hasDoc == hasDocCommentAbove(pDocument, currentLine)
           r == Reconcile(me.history, key, hasDoc)
           docText == TemplateDocText(pLanguage, fn)
       IN pScan' = [pScan EXCEPT ![p] =
             IF currentLine < 0 \/ currentLine >= lineCount(pDocument)
             THEN [me EXCEPT !.currentLine = currentLine, !.idx = me.idx + 1]
             ELSE IF fn.body = Missing
             THEN [me EXCEPT !.currentLine = currentLine, !.pc = "done"]
             ELSE IF ~r.insert
             THEN [me EXCEPT !.currentLine = currentLine, !.uniqueKey = key,
                             !.history = r.history, !.idx = me.idx + 1]
             ELSE IF pVersion = "llm"
             THEN [me EXCEPT !.currentLine = currentLine, !.uniqueKey = key,
                             !.history = r.history, !.pc = "gen"]
             ELSE [me EXCEPT !.currentLine = currentLine, !.uniqueKey = key,
                             !.edits = editsInsert(me.edits, currentLine, 0, docText),
                             !.history = r.history \cup {key},
                             !.insertedCount = me.insertedCount + 1,
                             !.idx = me.idx + 1]]
    /\ UNCHANGED <<pVersion, pLanguage, pDocument, pHistoryFile, pResets,
                   docVars, locVars, keyVars, astVars, scanVars, selVars>>

\* The collaborator answers and the iteration of the LLM version ends.
ParGenerateReturn(p) ==
    /\ pScan[p].pc = "gen"
    /\ MayRun(p)
    /\ \E answer \in CollaboratorAnswers :
          LET me == pScan[p]
          IN pScan' = [pScan EXCEPT ![p] =
                IF answer = <<>>
                THEN [me EXCEPT !.answers = Append(me.answers, answer),
                                !.idx = me.idx + 1, !.pc = "loop"]
                ELSE [me EXCEPT !.answers = Append(me.answers, answer),
                                !.edits = editsInsert(me.edits, me.currentLine, 0, answer \o <<"\n">>),
                                !.history = me.history \cup {me.uniqueKey},
                                !.insertedCount = me.insertedCount + 1,
                                !.idx = me.idx + 1, !.pc = "loop"]]
    /\ UNCHANGED <<pVersion, pLanguage, pDocument, pHistoryFile, pResets,
                   docVars, locVars, keyVars, astVars, scanVars, selVars>>

\* After the loop: the record is written when it has a key, the batch is
\* handed to applyEdit when something was inserted, else the command ends.
ParFinish(p) ==
    /\ pScan[p].pc = "loop"
    /\ MayRun(p)
    /\ pScan[p].idx > Len(pScan[p].parsedFuncs)
    /\ pHistoryFile' = IF pScan[p].history # {}
                       THEN [exists |-> TRUE, keys |-> pScan[p].history]
                       ELSE pHistoryFile
    /\ LET me == pScan[p]
       IN pScan' = [pScan EXCEPT ![p] =
                       [me EXCEPT !.wrote = (me.history # {}),
                                  !.written = me.history,
                                  !.pc = IF me.insertedCount > 0 THEN "apply" ELSE "done"]]
    /\ UNCHANGED <<pVersion, pLanguage, pDocument, pResets,
                   docVars, locVars, keyVars, astVars, scanVars, selVars>>

\* await vscode.workspace.applyEdit(edits) completes and the command ends.
ParApply(p) ==
    /\ pScan[p].pc = "apply"
    /\ MayRun(p)
    /\ pDocument' = applyEdit(pDocument, pScan[p].edits)
    /\ pScan' = [pScan EXCEPT ![p].pc = "done", ![p].applied = TRUE]
    /\ UNCHANGED <<pVersion, pLanguage, pHistoryFile, pResets,
                   docVars, locVars, keyVars, astVars, scanVars, selVars>>

\* autodocgen.resetDocHistory, invoked while the scans are suspended.
ParReset ==
    /\ \A q \in Invocations : Awaiting(q)
    /\ pResets < MaxResets
    /\ pHistoryFile.exists
    /\ pHistoryFile' = [exists |-> FALSE, keys |-> {}]
    /\ pResets' = pResets + 1
    /\ UNCHANGED <<pVersion, pLanguage, pDocument, pScan,
                   docVars, locVars, keyVars, astVars, scanVars, selVars>>

ParNext ==
    \/ \E p \in Invocations : ParStart(p)
    \/ \E p \in Invocations : ParParse(p)
    \/ \E p \in Invocations : ParFunction(p)
    \/ \E p \in Invocations : ParGenerateReturn(p)
    \/ \E p \in Invocations : ParFinish(p)
    \/ \E p \in Invocations : ParApply(p)
    \/ ParReset

SpecPar == ParInit /\ [][ParNext]_vars

\* Both invocations have ended, and each read the text and the record before
\* the other applied its batch.
OverlappedAndEnded ==
    /\ \A p \in Invocations : pScan[p].pc = "done"
    /\ pScan[1].text = pScan[2].text

\* The two batches insert at the same line: the function that starts there
\* receives two doc blocks.
TwoDocBlocks ==
    /\ \A p \in Invocations : pScan[p].applied
    /\ \E i \in 1..Len(pScan[1].edits), j \in 1..Len(pScan[2].edits) :
          pScan[1].edits[i].line = pScan[2].edits[j].line

\* A key that an invocation wrote is not in the record that is on disk.
EntryLost ==
    \E p \in Invocations :
        pScan[p].wrote /\ ~(pHistoryFile.exists /\ pScan[p].written \subseteq pHistoryFile.keys)

\* C30: when two full-file scans of one file overlap, both having read the
\* text and the history record before either applies its batch, and both
\* have ended with no history reset in between, no function has received two
\* inserted doc blocks and every key either scan wrote is in the record on
\* disk.
C30_OverlappingScans ==
    (OverlappedAndEnded /\ pResets = 0) => (~TwoDocBlocks /\ ~EntryLost)

\* The invocation has gone through its whole loop.
LoopDone(p) ==
    /\ pScan[p].pc \in {"apply", "done"}
    /\ pScan[p].idx > Len(pScan[p].parsedFuncs)

\* The two invocations worked on the same inputs: the same text, still the
\* text of the document, the same descriptors and the same collaborator
\* answers.
SameInputs ==
    /\ pScan[1].text = pScan[2].text
    /\ getText(pDocument) = pScan[1].text
    /\ pScan[1].parsedFuncs = pScan[2].parsedFuncs
    /\ pScan[1].answers = pScan[2].answers

====
